---- MODULE Spec2Model ----
(***************************************************************************)
(* A model of the MySQL binlog CDC client (mysql-binlog-rs).               *)
(*                                                                         *)
(*   Spec        the replication sessions of one BinlogClient              *)
(*               (src/src/binlog_client.rs, src/src/protocol.rs)           *)
(*   SpecEngine  the CdcEngine life cycle (src/src/cdc_engine.rs)          *)
(*   SpecGtid    one GtidSet under parse, add_gtid, subtract               *)
(*               (src/src/gtid.rs)                                         *)
(*   SpecRecords the change records built from rows and query events       *)
(*               (src/src/binlog.rs, src/src/cdc_engine.rs)                *)
(*   SpecGtidText, SpecGtidMerge                                           *)
(*               the text form of GTID sets and GtidRange::merge           *)
(*               (src/src/gtid.rs)                                         *)
(*   SpecParse   parse_header, read_lcb, read_packet and the parsers of    *)
(*               the event bodies on their inputs                          *)
(*               (src/src/binlog.rs, src/src/protocol.rs)                  *)
(*   SpecAuth    create_auth_response and create_handshake_response        *)
(*               (src/src/auth.rs)                                         *)
(*                                                                         *)
(* Bytes are naturals 0..255, byte strings are sequences of bytes.         *)
(***************************************************************************)
EXTENDS Integers, Sequences, FiniteSets, TLC

VARIABLES
    client,        \* the BinlogClient: config, binlog_filename, binlog_position
    pc,            \* per session: position of the spawned task in read_binlog_events
    target,        \* per session: the address the TCP connection was opened to
    wire,          \* per session: the reads and the packets written up to BINLOG_DUMP, in order
    authReply,     \* per session: the server's reply to the handshake response
    endPacket,     \* per session: the read_packet result that ended the streaming loop
    event_count,   \* per session: the loop's event counter
    rowEvents,     \* per session: the type codes of the rows events received, in order
    outcome,       \* per session: how the task ended
    greeting,      \* per session: the parsed server greeting
    chan,          \* per session: the mpsc channel made by start_streaming
    rotated,       \* per session: the last ROTATE event received, as the server sent it
    feEvents,      \* per session: the lengths of the packets starting with 0xFE that the
                   \* streaming loop took as events, in order
    lastRead,      \* per session: its last read_packet call: whether the stream ended
                   \* inside the packet, and the kind of result
    config,        \* CdcEngine.config
    state,         \* CdcEngine.state
    conn,          \* CdcEngine.conn
    offset,        \* CdcEngine.offset
    table_metadata,\* CdcEngine.table_metadata (its keys)
    calls,         \* the engine's last two calls and their results
    binlog_rx,     \* the channel returned by the last stream_binlog call
    gtid_set,      \* a GtidSet value
    call,          \* the last call of a library function: its name, arguments, result
    overflow_checks \* whether the build panics on integer overflow (else it wraps)

clientVars == <<client, pc, target, wire, authReply, endPacket, event_count,
                rowEvents, outcome, greeting, chan, rotated, lastRead, feEvents>>
engineVars == <<config, state, conn, offset, table_metadata, calls, binlog_rx>>
libVars == <<gtid_set, call, overflow_checks>>
vars == <<clientVars, rotated, engineVars, libVars>>

-----------------------------------------------------------------------------
(* Bounds *)

MaxSessions == 2      \* start_streaming calls on the client
MaxEvents == 1        \* packets the streaming loops handle before they must end
MaxSeq == 3           \* the GTID sequence numbers 1..MaxSeq, next to u64::MAX
MaxRanges == MaxSeq    \* ranges a UUID of the GtidSet may reach
MaxRows == 2          \* row records in the body of a rows event

Sessions == 1..MaxSessions

-----------------------------------------------------------------------------
(* Bytes *)

\* F(x), with x evaluated once
With(x, F(_)) == CHOOSE r \in {F(v) : v \in {x}} : TRUE

RECURSIVE Pow(_, _)
Pow(b, e) == IF e = 0 THEN 1 ELSE b * Pow(b, e - 1)

\* n as k little-endian bytes (write_u16/u24/u32::<LittleEndian>)
LE(n, k) == [i \in 1..k |-> (n \div Pow(256, i - 1)) % 256]

\* u16::from_le_bytes / u32::from_le_bytes
RECURSIVE FromLE(_)
FromLE(bs) == IF bs = <<>> THEN 0 ELSE bs[1] + 256 * FromLE(Tail(bs))

Zeros(k) == [i \in 1..k |-> 0]

RECURSIVE XorBits(_, _, _)
XorBits(a, b, k) ==
    IF k = 0 THEN 0
    ELSE (((a % 2) + (b % 2)) % 2) + 2 * XorBits(a \div 2, b \div 2, k - 1)

\* u8 ^ u8
Xor8(a, b) == XorBits(a, b, 8)

\* u32 | u32 over distinct single-bit flags
RECURSIVE OrBits(_, _, _)
OrBits(a, b, k) ==
    IF k = 0 THEN 0
    ELSE (IF (a % 2) + (b % 2) > 0 THEN 1 ELSE 0) + 2 * OrBits(a \div 2, b \div 2, k - 1)

Or32(a, b) == OrBits(a, b, 32)

RECURSIVE SumSeq(_)
SumSeq(s) == IF s = <<>> THEN 0 ELSE s[1] + SumSeq(Tail(s))

S_root == <<114, 111, 111, 116>>
S_rootpassword == <<114, 111, 111, 116, 112, 97, 115, 115, 119, 111, 114, 100>>
S_testdb == <<116, 101, 115, 116, 100, 98>>
S_repl == <<114, 101, 112, 108>>
S_secret == <<115, 101, 99, 114, 101, 116>>
S_app == <<97, 112, 112>>
S_mysql_native_password ==
    <<109, 121, 115, 113, 108, 95, 110, 97, 116, 105, 118, 101, 95, 112, 97, 115,
      115, 119, 111, 114, 100>>
S_checksum_query ==
    <<83, 69, 84, 32, 64, 109, 97, 115, 116, 101, 114, 95, 98, 105, 110, 108, 111,
      103, 95, 99, 104, 101, 99, 107, 115, 117, 109, 61, 39, 78, 79, 78, 69, 39>>
S_mysql_bin_000001 ==
    <<109, 121, 115, 113, 108, 45, 98, 105, 110, 46, 48, 48, 48, 48, 48, 49>>
S_bin_7 == <<98, 105, 110, 46, 55>>

\* Option<T>
None == [some |-> FALSE, val |-> <<>>]
Some(x) == [some |-> TRUE, val |-> x]

-----------------------------------------------------------------------------
(* protocol.rs *)

\* what read_packet returns when the transport fails (Err(IoError))
IoErr == <<-2>>
\* no packet read yet
NoPacket == <<-3>>

\* The bytes a TcpStream delivers up to end of input, as a sequence of
\* segments: Seg(bytes, 1) is the bytes as they are, Seg(<<b>>, n) the byte b
\* repeated n times.
Seg(bytes, n) == [bytes |-> bytes, n |-> n]
SegLen(g) == Len(g.bytes) * g.n
Bytes(data) == IF data = <<>> THEN <<>> ELSE <<Seg(data, 1)>>

RECURSIVE StreamLen(_)
StreamLen(st) == IF st = <<>> THEN 0 ELSE SegLen(st[1]) + StreamLen(Tail(st))

\* the bytes of a stream
RECURSIVE Expand(_)
Expand(st) ==
    IF st = <<>> THEN <<>>
    ELSE (IF st[1].n = 1 THEN st[1].bytes ELSE [i \in 1..st[1].n |-> st[1].bytes[1]])
         \o Expand(Tail(st))

\* the first n bytes of a segment longer than n, and the rest of it
SegSplit(g, n) ==
    IF g.n = 1
    THEN <<Seg(SubSeq(g.bytes, 1, n), 1), Seg(SubSeq(g.bytes, n + 1, Len(g.bytes)), 1)>>
    ELSE <<Seg(g.bytes, n), Seg(g.bytes, g.n - n)>>

\* AsyncReadExt::read_exact of n bytes (read_u8 for n = 1): an error once the
\* stream ends before n bytes have come
RECURSIVE stream_read_exact(_, _)
stream_read_exact(st, n) ==
    IF n = 0 THEN [ok |-> TRUE, val |-> <<>>, rest |-> st]
    ELSE IF st = <<>> THEN [ok |-> FALSE, val |-> <<>>, rest |-> <<>>]
    ELSE IF SegLen(st[1]) > n
        THEN [ok |-> TRUE, val |-> <<SegSplit(st[1], n)[1]>>,
              rest |-> <<SegSplit(st[1], n)[2]>> \o Tail(st)]
    ELSE With(stream_read_exact(Tail(st), n - SegLen(st[1])), LAMBDA r :
            [ok |-> r.ok, val |-> IF r.ok THEN <<st[1]>> \o r.val ELSE <<>>,
             rest |-> r.rest])

PacketErr(msg) ==
    [kind |-> "Err", body |-> <<>>, rest |-> <<>>, err |-> [kind |-> "IoError", msg |-> msg]]

\* read_exact that hands back what had come when the stream ended
stream_read_available(st, n) ==
    IF StreamLen(st) >= n THEN stream_read_exact(st, n)
    ELSE [ok |-> TRUE, val |-> st, rest |-> <<>>]

\* read_packet handing back what had come of the body when the stream ended
read_packet_short(st) ==
    With(stream_read_exact(st, 3), LAMBDA len_buf :
        IF ~len_buf.ok THEN PacketErr("Failed to read packet length")
        ELSE With(stream_read_exact(len_buf.rest, 1), LAMBDA sequence :
            IF ~sequence.ok THEN PacketErr("Failed to read sequence")
            ELSE With(stream_read_available(sequence.rest,
                                            FromLE(Expand(len_buf.val))),
                      LAMBDA buffer :
                [kind |-> "Ok", body |-> buffer.val, rest |-> buffer.rest,
                 err |-> [kind |-> "", msg |-> ""]])))

\* PacketChannel::read_packet on the bytes still to come: the body, as
\* segments, and the bytes left in the stream
read_packet(st) ==
    With(stream_read_exact(st, 3), LAMBDA len_buf :
        IF ~len_buf.ok THEN PacketErr("Failed to read packet length")
        ELSE With(stream_read_exact(len_buf.rest, 1), LAMBDA sequence :
            IF ~sequence.ok THEN PacketErr("Failed to read sequence")
            ELSE With(stream_read_exact(sequence.rest, FromLE(Expand(len_buf.val))),
                      LAMBDA buffer :
                IF ~buffer.ok THEN PacketErr("Failed to read packet body")
                ELSE [kind |-> "Ok", body |-> buffer.val, rest |-> buffer.rest,
                      err |-> [kind |-> "", msg |-> ""]])))

\* the header and body write_packet sends for data, as the peer's stream
Frame(data, sequence) == Bytes(LE(Len(data), 3) \o <<sequence>> \o data)

\* whether the stream ends before the 4-byte header and the body it announces
EndsEarly(st) ==
    \/ StreamLen(st) < 4
    \/ StreamLen(st) < 4 + FromLE(Expand(stream_read_exact(st, 3).val))

\* what a caller of read_packet holds: the body, or IoErr
Packet(r) == IF r.kind = "Ok" THEN Expand(r.body) ELSE IoErr

\* no read_packet call made yet
NoRead == [eof |-> FALSE, kind |-> "none"]
\* a read_packet call on the stream st: whether the stream ends inside the
\* packet, the kind of result and what the caller holds
ReadOf(st) ==
    With(read_packet(st), LAMBDA r :
        [eof |-> EndsEarly(st), kind |-> r.kind, packet |-> Packet(r)])
LastRead(rd) == [eof |-> rd.eof, kind |-> rd.kind]

\* streams that end inside a packet: in its length, before its sequence
\* number, in its body
CutStreams ==
    {<<>>, Bytes(<<5, 0>>), Bytes(<<0, 0, 0>>), Bytes(<<5, 0, 0, 1, 254, 0, 0, 2>>)}

\* what may come for a read: one of the packets, whole, or a stream that ends
Streams(packets) == {Frame(b, 0) : b \in packets} \cup CutStreams
Reads(packets) == {ReadOf(st) : st \in Streams(packets)}

is_error_packet_never(data) == FALSE

is_error_packet(data) == data # <<>> /\ data[1] = 255

is_ok_packet(data) == data # <<>> /\ data[1] = 0

\* the index of the first NUL at or after position i, 0 when there is none
RECURSIVE FindNul(_, _)
FindNul(data, i) ==
    IF i > Len(data) THEN 0
    ELSE IF data[i] = 0 THEN i
    ELSE FindNul(data, i + 1)

NoGreeting == [ok |-> FALSE, protocol_version |-> 0, scramble |-> <<>>,
               server_collation |-> 0]

\* GreetingPacket::parse: the fields read in order off a cursor; any read past
\* the end of the data is a ProtocolError.
GreetingParse(data) ==
    LET nul == FindNul(data, 2)
        authLenAt == nul + 21
        auth_data_len == data[authLenAt]
        sub8 == IF auth_data_len > 8 THEN auth_data_len - 8 ELSE 0
        scramble_len == IF sub8 > 13 THEN sub8 ELSE 13
        last == nul + 31 + scramble_len
    IN  IF Len(data) < 1 \/ nul = 0 \/ Len(data) < nul + 31 \/ Len(data) < last
        THEN NoGreeting
        ELSE [ok |-> TRUE,
              protocol_version |-> data[1],
              scramble |-> SubSeq(data, nul + 5, nul + 12)
                           \o SubSeq(data, nul + 32, last - 1),
              server_collation |-> data[nul + 16]]

-----------------------------------------------------------------------------
(* auth.rs *)

LONG_PASSWORD == 1
LONG_FLAG == 4
CONNECT_WITH_DB == 8
PROTOCOL_41 == 512
SECURE_CONNECTION == 32768
MULTI_STATEMENTS == 65536
MULTI_RESULTS == 131072
PLUGIN_AUTH == 524288

\* The SHA-1 of the sha1 crate, abstracted to a 20-byte digest of its input:
\* only the digest's length and its dependence on the input are kept.
sha1(data) ==
    LET h == SumSeq(data) + 7 * Len(data)
    IN  <<(h + 31) % 256, (h + 62) % 256, (h + 93) % 256, (h + 124) % 256,
          (h + 155) % 256, (h + 186) % 256, (h + 217) % 256, (h + 248) % 256,
          (h + 279) % 256, (h + 310) % 256, (h + 341) % 256, (h + 372) % 256,
          (h + 403) % 256, (h + 434) % 256, (h + 465) % 256, (h + 496) % 256,
          (h + 527) % 256, (h + 558) % 256, (h + 589) % 256, (h + 620) % 256>>

\* a[i] ^ b[i] for i in 1..n, as a sequence
RECURSIVE XorSeq(_, _)
XorSeq(a, b) ==
    IF a = <<>> THEN <<>> ELSE <<Xor8(a[1], b[1])>> \o XorSeq(Tail(a), Tail(b))

\* the reply without the test for the empty password
create_auth_response_always_hashed(pw, scramble) ==
    XorSeq(sha1(pw), sha1(scramble \o sha1(sha1(pw))))

create_auth_response(pw, scramble) ==
    IF pw = <<>> THEN <<>>
    ELSE LET stage1 == sha1(pw)
             stage2 == sha1(stage1)
             stage3 == sha1(scramble \o stage2)
         IN  XorSeq(stage1, stage3)

\* the response with CONNECT_WITH_DB set in every case
create_handshake_response_with_db_bit(user, pw, db, scramble, collation) ==
    LE(Or32(LONG_PASSWORD, Or32(LONG_FLAG, Or32(PROTOCOL_41,
       Or32(SECURE_CONNECTION, Or32(MULTI_STATEMENTS,
       Or32(MULTI_RESULTS, Or32(PLUGIN_AUTH, CONNECT_WITH_DB))))))), 4)
    \o LE(0, 4) \o <<collation>> \o Zeros(23)
    \o user \o <<0>>
    \o <<Len(create_auth_response(pw, scramble)) % 256>>
    \o create_auth_response(pw, scramble)
    \o (IF db.some THEN db.val \o <<0>> ELSE <<>>)
    \o S_mysql_native_password \o <<0>>

create_handshake_response(user, pw, db, scramble, collation) ==
    LET base == Or32(LONG_PASSWORD, Or32(LONG_FLAG, Or32(PROTOCOL_41,
                Or32(SECURE_CONNECTION, Or32(MULTI_STATEMENTS,
                Or32(MULTI_RESULTS, PLUGIN_AUTH))))))
        capabilities == IF db.some THEN Or32(base, CONNECT_WITH_DB) ELSE base
        auth_response == create_auth_response(pw, scramble)
    IN  LE(capabilities, 4) \o LE(0, 4) \o <<collation>> \o Zeros(23)
        \o user \o <<0>>
        \o <<Len(auth_response) % 256>> \o auth_response
        \o (IF db.some THEN db.val \o <<0>> ELSE <<>>)
        \o S_mysql_native_password \o <<0>>

-----------------------------------------------------------------------------
(* binlog_client.rs *)

COM_QUERY == 3
COM_BINLOG_DUMP == 18

\* capacity of a channel made by mpsc::unbounded_channel()
Unbounded == -1

\* A u64 is held as its 8 little-endian bytes; `as u32` keeps the low 4 and
\* write_u32::<LittleEndian> writes them.
U64(lo, hi) == LE(lo, 4) \o LE(hi, 4)
AsU32(x) == SubSeq(x, 1, 4)

create_binlog_dump_command(server_id, binlog_filename, binlog_position) ==
    <<COM_BINLOG_DUMP>>
    \o AsU32(binlog_position)
    \o LE(0, 2)
    \o LE(server_id, 4)
    \o binlog_filename

\* the BinlogClient values the sessions are started from
ClientChoices ==
    { [config |-> [hostname |-> "localhost", port |-> 3306, username |-> S_root,
                   password |-> <<>>, database |-> None, server_id |-> 1],
       binlog_filename |-> S_mysql_bin_000001, binlog_position |-> U64(4, 0)],
      [config |-> [hostname |-> "db.internal", port |-> 3307, username |-> S_repl,
                   password |-> S_secret, database |-> Some(S_app), server_id |-> 7],
       binlog_filename |-> S_bin_7, binlog_position |-> U64(4, 1)] }

\* What the server may send.
GreetingOk ==
    <<10, 56, 46, 48, 0>> \o <<1, 0, 0, 0>> \o <<1, 2, 3, 4, 5, 6, 7, 8>> \o <<0>>
    \o <<255, 247>> \o <<33>> \o <<2, 0>> \o <<255, 129>> \o <<21>> \o Zeros(10)
    \o <<9, 10, 11, 12, 13, 14, 15, 16, 17, 18, 19, 20, 0>>
GreetingTruncated == SubSeq(GreetingOk, 1, 20)
GreetingPackets == {GreetingOk, GreetingTruncated}

OkPacket == <<0, 0, 0, 2, 0, 0, 0>>
\* error 1045, state 28000, message "denied"
ErrPacket1045 == <<255, 21, 4, 35, 50, 56, 48, 48, 48, 100, 101, 110, 105, 101, 100>>
\* error 1236, state HY000, message "gone"
ErrPacket1236 == <<255, 212, 4, 35, 72, 89, 48, 48, 48, 103, 111, 110, 101>>
\* an error packet cut after the SQL state marker
ErrPacketCut == <<255, 212, 4, 35, 72>>
ErrPacketBare == <<255>>
EofPacket == <<254, 0, 0, 2, 0>>
\* 0xFE followed by 8 bytes: too long for an EOF packet
LongFePacket == <<254, 1, 2, 3, 4, 5, 6, 7, 8>>

\* [0x00][19-byte header][body] of an event of the given type
EventPacket(type, body) ==
    <<0>> \o LE(1700000000, 4) \o <<type>> \o LE(1, 4) \o LE(19 + Len(body), 4)
    \o LE(4096, 4) \o LE(0, 2) \o body

\* a table map for table_id 1 and rows events carrying one row each
TableMapPacket == EventPacket(19, <<1, 0, 0, 0, 0, 0, 1, 0>>)
WriteRowsPacket == EventPacket(30, <<1, 0, 0, 0, 0, 0, 1, 0, 1, 1, 0, 5>>)
UpdateRowsPacket == EventPacket(31, <<1, 0, 0, 0, 0, 0, 1, 0, 1, 1, 1, 0, 5, 0, 6>>)
DeleteRowsPacket == EventPacket(32, <<1, 0, 0, 0, 0, 0, 1, 0, 1, 1, 0, 5>>)

\* ROTATE to mysql-bin.000008 at position 4
S_mysql_bin_000008 ==
    <<109, 121, 115, 113, 108, 45, 98, 105, 110, 46, 48, 48, 48, 48, 48, 56>>
RotatePacket == EventPacket(4, U64(4, 0) \o S_mysql_bin_000008)

AuthReplies == {OkPacket, ErrPacket1045}
ChecksumReplies == {OkPacket, ErrPacket1236}
StreamPackets ==
    {ErrPacket1236, ErrPacketCut, ErrPacketBare, EofPacket, LongFePacket, <<>>,
     TableMapPacket, WriteRowsPacket, UpdateRowsPacket, DeleteRowsPacket,
     RotatePacket}

\* the read_packet calls of each step
GreetingReads == Reads(GreetingPackets)
AuthReads == Reads(AuthReplies)
ChecksumReads == Reads(ChecksumReplies)
StreamReads == Reads(StreamPackets)

Running == [kind |-> "Running", msg |-> ""]
Ok == [kind |-> "Ok", msg |-> ""]
Err(kind, msg) == [kind |-> kind, msg |-> msg]
Panicked == [kind |-> "Panic", msg |-> "range start index 9 out of range"]

NoChannel == [capacity |-> 0, txAlive |-> FALSE, queue |-> <<>>, sent |-> <<>>]

\* mpsc::unbounded_channel()
unbounded_channel == [capacity |-> Unbounded, txAlive |-> TRUE, queue |-> <<>>, sent |-> <<>>]

DropTx_leak(c) == c

\* the task's future owns tx: it is dropped when the future returns or unwinds
DropTx(c) == [c EXCEPT !.txAlive = FALSE]

Read == [op |-> "R", seq |-> 0, body |-> <<>>]
Write(data, sequence) == [op |-> "W", seq |-> sequence, body |-> data]

\* the task of session s ends with outcome out
TaskEnd(s, out) ==
    /\ pc' = [pc EXCEPT ![s] = "done"]
    /\ outcome' = [outcome EXCEPT ![s] = out]
    /\ chan' = [chan EXCEPT ![s] = DropTx(chan[s])]

\* the task of session s moves on to step next
Goto(s, next) ==
    /\ pc' = [pc EXCEPT ![s] = next]
    /\ UNCHANGED <<outcome, chan>>

\* start_streaming: make the channel, spawn the task, hand out the receiver.
\* There is no check for a session already running.
StartStreaming(s) ==
    /\ pc[s] = "idle"
    /\ \A t \in Sessions : t < s => pc[t] # "idle"
    /\ chan' = [chan EXCEPT ![s] = unbounded_channel]
    /\ pc' = [pc EXCEPT ![s] = "connect"]
    /\ UNCHANGED <<client, feEvents, lastRead, target, wire, authReply, endPacket, event_count,
                   rowEvents, outcome, greeting, rotated, engineVars, libVars>>

\* the host, port and credentials read_binlog_events uses
hostname == "localhost"
port == 3306
username == S_root
password == S_rootpassword
database == Some(S_testdb)

\* 1. PacketChannel::connect(hostname, port)
Connect(s) ==
    /\ pc[s] = "connect"
    /\ target' = [target EXCEPT ![s] = [hostname |-> hostname, port |-> port]]
    /\ \E connected \in BOOLEAN :
        IF connected
        THEN Goto(s, "read_greeting")
        ELSE TaskEnd(s, Err("ConnectionError", "Failed to connect"))
    /\ UNCHANGED <<client, feEvents, lastRead, wire, authReply, endPacket, event_count, rowEvents,
                   greeting, rotated, engineVars, libVars>>

\* 2. read the greeting, parse it. The three messages of a failed read_packet
\* are recorded by their common part.
ReadGreeting(s) ==
    /\ pc[s] = "read_greeting"
    /\ \E r \in GreetingReads :
        /\ lastRead' = [lastRead EXCEPT ![s] = LastRead(r)]
        /\ \E p \in {r.packet} :
            IF p = IoErr
            THEN /\ TaskEnd(s, Err("IoError", "Failed to read packet"))
                 /\ UNCHANGED <<wire, greeting>>
            ELSE /\ wire' = [wire EXCEPT ![s] = Append(@, Read)]
                 /\ greeting' = [greeting EXCEPT ![s] = GreetingParse(p)]
                 /\ IF GreetingParse(p).ok
                    THEN Goto(s, "write_auth")
                    ELSE TaskEnd(s, Err("ProtocolError", "Failed to read greeting"))
    /\ UNCHANGED <<client, feEvents, target, authReply, endPacket, event_count, rowEvents,
                   rotated, engineVars, libVars>>

\* 3. build the handshake response, write it with sequence 1
WriteHandshakeResponse(s) ==
    /\ pc[s] = "write_auth"
    /\ \E written \in BOOLEAN :
        IF written
        THEN /\ wire' = [wire EXCEPT ![s] = Append(@,
                    Write(create_handshake_response(username, password, database,
                              greeting[s].scramble, greeting[s].server_collation),
                          1))]
             /\ Goto(s, "read_auth")
        ELSE /\ TaskEnd(s, Err("IoError", "Failed to write"))
             /\ UNCHANGED wire
    /\ UNCHANGED <<client, feEvents, lastRead, target, authReply, endPacket, event_count, rowEvents,
                   greeting, rotated, engineVars, libVars>>

\* 4. read the authentication result
ReadAuthResult(s) ==
    /\ pc[s] = "read_auth"
    /\ \E r \in AuthReads :
        /\ lastRead' = [lastRead EXCEPT ![s] = LastRead(r)]
        /\ \E p \in {r.packet} :
            IF p = IoErr
            THEN /\ TaskEnd(s, Err("IoError", "Failed to read packet"))
                 /\ UNCHANGED <<wire, authReply>>
            ELSE /\ wire' = [wire EXCEPT ![s] = Append(@, Read)]
                 /\ authReply' = [authReply EXCEPT ![s] = p]
                 /\ IF is_error_packet(p)
                    THEN TaskEnd(s, Err("ConnectionError", "Authentication failed"))
                    ELSE Goto(s, "write_checksum")
    /\ UNCHANGED <<client, feEvents, target, endPacket, event_count, rowEvents, greeting,
                   rotated, engineVars, libVars>>

\* 5. COM_QUERY SET @master_binlog_checksum='NONE', sequence 0
WriteChecksumQuery(s) ==
    /\ pc[s] = "write_checksum"
    /\ \E written \in BOOLEAN :
        IF written
        THEN /\ wire' = [wire EXCEPT ![s] = Append(@,
                    Write(<<COM_QUERY>> \o S_checksum_query, 0))]
             /\ Goto(s, "read_checksum")
        ELSE /\ TaskEnd(s, Err("IoError", "Failed to write"))
             /\ UNCHANGED wire
    /\ UNCHANGED <<client, feEvents, lastRead, target, authReply, endPacket, event_count, rowEvents,
                   greeting, rotated, engineVars, libVars>>

\* the reply to the checksum query: an error packet is only logged
ReadChecksumResult(s) ==
    /\ pc[s] = "read_checksum"
    /\ \E r \in ChecksumReads :
        /\ lastRead' = [lastRead EXCEPT ![s] = LastRead(r)]
        /\ IF r.packet = IoErr
           THEN /\ TaskEnd(s, Err("IoError", "Failed to read packet"))
                /\ UNCHANGED wire
           ELSE /\ wire' = [wire EXCEPT ![s] = Append(@, Read)]
                /\ Goto(s, "write_dump")
    /\ UNCHANGED <<client, feEvents, target, authReply, endPacket, event_count, rowEvents,
                   greeting, rotated, engineVars, libVars>>

\* 6. COM_BINLOG_DUMP with the client's server_id, file and position
WriteBinlogDump(s) ==
    /\ pc[s] = "write_dump"
    /\ \E written \in BOOLEAN :
        IF written
        THEN /\ wire' = [wire EXCEPT ![s] = Append(@,
                    Write(create_binlog_dump_command(client.config.server_id,
                              client.binlog_filename, client.binlog_position), 0))]
             /\ Goto(s, "stream")
        ELSE /\ TaskEnd(s, Err("IoError", "Failed to write"))
             /\ UNCHANGED wire
    /\ UNCHANGED <<client, feEvents, lastRead, target, authReply, endPacket, event_count, rowEvents,
                   greeting, rotated, engineVars, libVars>>

\* the event bytes of a streamed packet: a leading 0x00 is peeled off
EventData(packet) ==
    IF packet[1] = 0 /\ Len(packet) > 1 THEN Tail(packet) ELSE packet

\* the type byte of an event the loop parses a header for, -1 otherwise
EventTypeOf(packet) ==
    IF packet # <<>> /\ Len(EventData(packet)) >= 19 THEN EventData(packet)[5] ELSE -1

\* the bytes of an event after its 19-byte header
EventBody(packet) == SubSeq(EventData(packet), 20, Len(EventData(packet)))

\* BinlogParser::parse_rotate_event (binlog.rs): the position as a u64, then
\* the file name; the streaming loop never calls it
parse_rotate_event(data) ==
    IF Len(data) < 8
    THEN [ok |-> FALSE, position |-> <<>>, next_binlog_name |-> <<>>]
    ELSE [ok |-> TRUE, position |-> SubSeq(data, 1, 8),
          next_binlog_name |-> SubSeq(data, 9, Len(data))]

\* the loop taking 0xFE as the end of the stream whatever the length
LoopStep_any_fe(r) ==
    IF r = IoErr THEN "break"
    ELSE IF is_error_packet(r)
         THEN IF Len(r) > 3 /\ Len(r) < 9 THEN "panic" ELSE "break"
    ELSE IF r # <<>> /\ r[1] = 254 THEN "break"
    ELSE "continue"

\* what one pass of the streaming loop does with the result of read_packet
LoopStep(r) ==
    IF r = IoErr THEN "break"
    ELSE IF is_error_packet(r)
         THEN IF Len(r) > 3 /\ Len(r) < 9 THEN "panic"    \* &packet[9..]
              ELSE "break"
    ELSE IF r # <<>> /\ r[1] = 254 /\ Len(r) < 9 THEN "break"
    ELSE "continue"

\* the packets the streaming loops have handled so far, all sessions together
EventsHandled == SumSeq(event_count)

\* 7. one pass of the streaming loop; nothing is sent on tx
StreamRead(s) ==
    /\ pc[s] = "stream"
    /\ \E got \in StreamReads : \E r \in {got.packet} :
        /\ lastRead' = [lastRead EXCEPT ![s] = LastRead(got)]
        /\ IF LoopStep(r) = "continue"
           THEN /\ EventsHandled < MaxEvents
                /\ UNCHANGED endPacket
                /\ event_count' = [event_count EXCEPT ![s] = @ + 1]
                /\ rowEvents' = [rowEvents EXCEPT ![s] =
                       IF EventTypeOf(r) \in {30, 31, 32}
                       THEN Append(@, EventTypeOf(r)) ELSE @]
                /\ rotated' = [rotated EXCEPT ![s] =
                       IF EventTypeOf(r) = 4
                       THEN Some(parse_rotate_event(EventBody(r))) ELSE @]
                /\ feEvents' = [feEvents EXCEPT ![s] =
                       IF r # <<>> /\ r[1] = 254 THEN Append(@, Len(r)) ELSE @]
                /\ Goto(s, "stream")
           ELSE /\ TaskEnd(s, IF LoopStep(r) = "panic" THEN Panicked ELSE Ok)
                /\ endPacket' = [endPacket EXCEPT ![s] = r]
                /\ UNCHANGED <<event_count, rowEvents, rotated, feEvents>>
    /\ UNCHANGED <<client, target, wire, authReply, greeting, engineVars, libVars>>

\* rx.recv() on the receiver start_streaming returned: an item if one is
\* queued, None once the queue is empty and every sender is gone, and
\* otherwise the consumer stays suspended
recv(c) ==
    IF c.queue # <<>> THEN "Some"
    ELSE IF ~c.txAlive THEN "None"
    ELSE "Pending"

-----------------------------------------------------------------------------
(* connection.rs, offset.rs, cdc_engine.rs *)

D_shop == <<115, 104, 111, 112>>                    \* "shop"
T_users == <<117, 115, 101, 114, 115>>              \* "users"
T_orders == <<111, 114, 100, 101, 114, 115>>        \* "orders"

\* format!("{}.{}", database, table)
Qualified(db, table) == db \o <<46>> \o table

\* BinlogOffset::new(filename)
NewOffset(filename) ==
    [binlog_position |-> [filename |-> filename, position |-> 4],
     gtid_set |-> {},
     snapshot_completed |-> FALSE]

\* BinlogOffset::update_position
update_position(off, filename, position) ==
    [off EXCEPT !.binlog_position = [filename |-> filename, position |-> position]]

\* the CdcConfig values an engine is created with
EngineConfigs ==
    { [databases |-> <<D_shop>>, tables |-> tabs, include_ddl |-> ddl] :
        tabs \in {None, Some({Qualified(D_shop, T_users)}), Some({T_users})},
        ddl \in BOOLEAN }

\* what SHOW BINARY LOG STATUS may report, the GTID set already parsed
\* (GtidSet::parse(..).unwrap_or_default()): a set of [uuid, ranges] entries
BinlogStatuses ==
    { [file |-> f, position |-> p, executed_gtid_set |-> g] :
        f \in {"mysql-bin.000001", "mysql-bin.000002"},
        p \in {4, 157},
        g \in {{}, {[uuid |-> "550e8400", ranges |-> <<[start |-> 1, end |-> 100]>>]}} }

\* what the server answers to SHOW TABLES and to the column queries:
\* tables is None when get_tables fails, noSchema holds the tables whose
\* get_table_schema fails
Catalogs ==
    { [tables |-> tabs, noSchema |-> bad] :
        tabs \in {None, Some({T_users, T_orders})},
        bad \in {{}, {T_orders}} }

\* what the server answers to SHOW VARIABLES LIKE 'binlog_format'
\* (MySqlConnection::get_binlog_format); start never asks
BinlogFormats == {"ROW", "STATEMENT", "MIXED"}

\* an open MySqlConnection, named by the server it is connected to
MySqlConnection(binlog_format, catalog) ==
    [binlog_format |-> binlog_format, catalog |-> catalog]

\* the steps of start that can fail, in the order they run
StartSteps == <<"connect", "get_server_id", "is_gtid_mode_enabled", "get_binlog_status">>

close_fails(c) == "Err"

\* MySqlConnection::close
close(c) == "Ok"

\* load_table_metadata: the entries inserted into table_metadata
load_table_metadata(cfg, catalog, metadata) ==
    LET loaded ==
            { [key |-> Qualified(cfg.databases[i], table),
               database |-> cfg.databases[i],
               table |-> table] :
                i \in DOMAIN cfg.databases,
                table \in {tb \in (IF catalog.tables.some THEN catalog.tables.val ELSE {}) :
                              /\ cfg.tables.some => tb \in cfg.tables.val
                              /\ tb \notin catalog.noSchema} }
    IN  {e \in metadata : \A n \in loaded : n.key # e.key} \cup loaded

\* the last two calls made on the engine
Called(op, result) ==
    calls' = (IF Len(calls) = 2 THEN Tail(calls) ELSE calls)
             \o <<[op |-> op, result |-> result]>>

\* start storing the connection in the engine as soon as it is open
Start_stores_conn_first ==
    \E failedAt \in {StartSteps[i] : i \in DOMAIN StartSteps} \cup {"none"} :
        \E binlog_status \in BinlogStatuses,
           binlog_format \in BinlogFormats,
           catalog \in Catalogs :
            IF failedAt # "none"
            THEN /\ conn' = IF failedAt = "connect" THEN conn
                            ELSE Some(MySqlConnection(binlog_format, catalog))
                 /\ Called("start", "Err")
                 /\ UNCHANGED <<config, state, offset, table_metadata, binlog_rx,
                                clientVars, libVars>>
            ELSE /\ offset' = [update_position(offset, binlog_status.file,
                                               binlog_status.position)
                                  EXCEPT !.gtid_set = binlog_status.executed_gtid_set]
                 /\ table_metadata' = load_table_metadata(config, catalog, table_metadata)
                 /\ conn' = Some(MySqlConnection(binlog_format, catalog))
                 /\ state' = "Streaming"
                 /\ Called("start", "Ok")
                 /\ UNCHANGED <<config, binlog_rx, clientVars, libVars>>

\* CdcEngine::start: failedAt names the step that returns an error, "none"
\* when every step succeeds
Start ==
    \E failedAt \in {StartSteps[i] : i \in DOMAIN StartSteps} \cup {"none"} :
        IF failedAt # "none"
        THEN /\ Called("start", "Err")
             /\ UNCHANGED <<config, state, conn, offset, table_metadata, binlog_rx,
                            clientVars, libVars>>
        ELSE \E binlog_status \in BinlogStatuses,
                binlog_format \in BinlogFormats,
                catalog \in Catalogs :
             /\ offset' = [update_position(offset, binlog_status.file,
                                           binlog_status.position)
                              EXCEPT !.gtid_set = binlog_status.executed_gtid_set]
             /\ table_metadata' = load_table_metadata(config, catalog, table_metadata)
             /\ conn' = Some(MySqlConnection(binlog_format, catalog))
             /\ state' = "Streaming"
             /\ Called("start", "Ok")
             /\ UNCHANGED <<config, binlog_rx, clientVars, libVars>>

\* CdcEngine::stream_binlog: tx is a local of the call and is dropped on return
StreamBinlog ==
    /\ binlog_rx' = DropTx(unbounded_channel)
    /\ Called("stream_binlog", "Ok")
    /\ UNCHANGED <<config, state, conn, offset, table_metadata, clientVars, libVars>>

Stop_keeps_conn ==
    /\ state' = "Stopped"
    /\ Called("stop", "Ok")
    /\ UNCHANGED <<config, conn, offset, table_metadata, binlog_rx, clientVars, libVars>>

\* CdcEngine::stop
Stop ==
    LET closed == IF conn.some THEN close(conn.val) ELSE "Ok"
    IN  /\ conn' = None                     \* self.conn.take()
        /\ IF closed = "Ok"
           THEN state' = "Stopped"
           ELSE UNCHANGED state
        /\ Called("stop", closed)
        /\ UNCHANGED <<config, offset, table_metadata, binlog_rx, clientVars, libVars>>

\* CdcEngine::new(config)
NewEngine(cfg) ==
    /\ config = cfg
    /\ state = "Snapshotting"
    /\ conn = None
    /\ offset = NewOffset("mysql-bin.000001")
    /\ table_metadata = {}
    /\ calls = <<>>
    /\ binlog_rx = NoChannel

\* no engine in use
EngineIdle == NewEngine([databases |-> <<>>, tables |-> None, include_ddl |-> FALSE])

\* no session started
NoSessions ==
    /\ pc = [s \in Sessions |-> "idle"]
    /\ target = [s \in Sessions |-> [hostname |-> "", port |-> 0]]
    /\ wire = [s \in Sessions |-> <<>>]
    /\ authReply = [s \in Sessions |-> NoPacket]
    /\ endPacket = [s \in Sessions |-> NoPacket]
    /\ event_count = [s \in Sessions |-> 0]
    /\ rowEvents = [s \in Sessions |-> <<>>]
    /\ outcome = [s \in Sessions |-> Running]
    /\ greeting = [s \in Sessions |-> NoGreeting]
    /\ chan = [s \in Sessions |-> NoChannel]
    /\ rotated = [s \in Sessions |-> None]
    /\ lastRead = [s \in Sessions |-> NoRead]
    /\ feEvents = [s \in Sessions |-> <<>>]

-----------------------------------------------------------------------------
(* u64 arithmetic. A u64 is its 8 little-endian bytes (see U64). *)

U64Max == <<255, 255, 255, 255, 255, 255, 255, 255>>
U64Zero == <<0, 0, 0, 0, 0, 0, 0, 0>>

\* a < b, comparing from byte i (the most significant one first) downwards
RECURSIVE U64LtFrom(_, _, _)
U64LtFrom(a, b, i) ==
    IF i = 0 THEN FALSE
    ELSE IF a[i] # b[i] THEN a[i] < b[i]
    ELSE U64LtFrom(a, b, i - 1)

U64Lt(a, b) == U64LtFrom(a, b, 8)
U64Le(a, b) == a = b \/ U64Lt(a, b)
U64Min(a, b) == IF U64Lt(b, a) THEN b ELSE a
U64Max2(a, b) == IF U64Lt(a, b) THEN b ELSE a

\* a.wrapping_add(1) and a.wrapping_sub(1)
RECURSIVE WrappingInc(_)
WrappingInc(a) ==
    IF a = <<>> THEN <<>>
    ELSE IF a[1] = 255 THEN <<0>> \o WrappingInc(Tail(a))
    ELSE <<a[1] + 1>> \o Tail(a)

RECURSIVE WrappingDec(_)
WrappingDec(a) ==
    IF a = <<>> THEN <<>>
    ELSE IF a[1] = 0 THEN <<255>> \o WrappingDec(Tail(a))
    ELSE <<a[1] - 1>> \o Tail(a)

\* x + 1 on a u64: a panic when the build checks overflow and x is u64::MAX,
\* the wrapped value otherwise
AddOne(x, checks) ==
    IF x = U64Max /\ checks THEN [panic |-> TRUE, val |-> x]
    ELSE [panic |-> FALSE, val |-> WrappingInc(x)]

\* acc * 10 + d over the 8 bytes, least significant first; carry is what is
\* left over after the 8th byte
MulAdd10(acc, d) ==
    LET v1 == acc[1] * 10 + d
        v2 == acc[2] * 10 + (v1 \div 256)
        v3 == acc[3] * 10 + (v2 \div 256)
        v4 == acc[4] * 10 + (v3 \div 256)
        v5 == acc[5] * 10 + (v4 \div 256)
        v6 == acc[6] * 10 + (v5 \div 256)
        v7 == acc[7] * 10 + (v6 \div 256)
        v8 == acc[8] * 10 + (v7 \div 256)
    IN  [bytes |-> <<v1 % 256, v2 % 256, v3 % 256, v4 % 256,
                     v5 % 256, v6 % 256, v7 % 256, v8 % 256>>,
         carry |-> v8 \div 256]

IsDigit(c) == c >= 48 /\ c <= 57

\* the digits chars[i..] of a decimal number folded into a u64; ok is FALSE
\* on a character that is no digit and on overflow
RECURSIVE ParseDigits(_, _, _)
ParseDigits(chars, i, acc) ==
    IF i > Len(chars) THEN [ok |-> TRUE, val |-> acc]
    ELSE IF ~IsDigit(chars[i]) THEN [ok |-> FALSE, val |-> acc]
    ELSE LET m == MulAdd10(acc, chars[i] - 48)
         IN  IF m.carry # 0 THEN [ok |-> FALSE, val |-> acc]
             ELSE ParseDigits(chars, i + 1, m.bytes)

\* str::parse::<u64>: an optional '+', then at least one digit
ParseU64(chars) ==
    LET first == IF chars # <<>> /\ chars[1] = 43 THEN 2 ELSE 1
    IN  IF first > Len(chars) THEN [ok |-> FALSE, val |-> U64Zero]
        ELSE ParseDigits(chars, first, U64Zero)

-----------------------------------------------------------------------------
(* gtid.rs. A GtidRange is [start, end] of u64; a UUIDGtidSet is its uuid   *)
(* and its Vec of ranges; a GtidSet, a BTreeMap keyed by uuid, is the set  *)
(* of its UUIDGtidSet values.                                              *)

Range(start, end) == [start |-> start, end |-> end]

\* GtidRange::new
GtidRange_new(start, end) ==
    IF U64Lt(end, start) THEN [ok |-> FALSE, val |-> Range(start, end)]
    ELSE [ok |-> TRUE, val |-> Range(start, end)]

\* GtidRange::contains
GtidRange_contains(r, value) == U64Le(r.start, value) /\ U64Le(value, r.end)

GtidRange_merge_overlap_only(self, other, checks) ==
    IF U64Le(other.start, self.end) /\ U64Le(self.start, other.end)
    THEN [kind |-> "Some", val |-> Range(U64Min(self.start, other.start),
                                         U64Max2(self.end, other.end))]
    ELSE [kind |-> "None", val |-> self]

\* GtidRange::merge: self.end + 1 >= other.start && other.end + 1 >= self.start,
\* the second sum computed only when the first comparison holds
GtidRange_merge(self, other, checks) ==
    LET a == AddOne(self.end, checks)
        b == AddOne(other.end, checks)
    IN  IF a.panic THEN [kind |-> "Panic", val |-> self]
        ELSE IF ~U64Le(other.start, a.val) THEN [kind |-> "None", val |-> self]
        ELSE IF b.panic THEN [kind |-> "Panic", val |-> self]
        ELSE IF ~U64Le(self.start, b.val) THEN [kind |-> "None", val |-> self]
        ELSE [kind |-> "Some", val |-> Range(U64Min(self.start, other.start),
                                             U64Max2(self.end, other.end))]

\* the derived Ord of GtidRange: by start, then by end
RangeLt(x, y) == U64Lt(x.start, y.start) \/ (x.start = y.start /\ U64Lt(x.end, y.end))

RECURSIVE InsertSorted(_, _)
InsertSorted(sorted, r) ==
    IF sorted = <<>> THEN <<r>>
    ELSE IF RangeLt(r, sorted[1]) THEN <<r>> \o sorted
    ELSE <<sorted[1]>> \o InsertSorted(Tail(sorted), r)

\* Vec::sort
RECURSIVE SortRanges(_)
SortRanges(ranges) ==
    IF ranges = <<>> THEN <<>>
    ELSE InsertSorted(SortRanges(Tail(ranges)), ranges[1])

RemoveAt(seq, i) == SubSeq(seq, 1, i - 1) \o SubSeq(seq, i + 1, Len(seq))

\* the loop of UUIDGtidSet::add_gtid from index i on; a panic leaves the
\* ranges as they are at that point
RECURSIVE AddGtidFrom(_, _, _, _)
AddGtidFrom(ranges, range, i, checks) ==
    IF i > Len(ranges)
    THEN [kind |-> "Ok", ranges |-> SortRanges(Append(ranges, range))]
    ELSE LET m == GtidRange_merge(ranges[i], range, checks)
             merged == [ranges EXCEPT ![i] = m.val]
         IN  IF m.kind = "Panic" THEN [kind |-> "Panic", ranges |-> ranges]
             ELSE IF m.kind = "None" THEN AddGtidFrom(ranges, range, i + 1, checks)
             ELSE IF i + 1 > Len(ranges) THEN [kind |-> "Ok", ranges |-> merged]
             ELSE LET again == GtidRange_merge(merged[i], merged[i + 1], checks)
                  IN  IF again.kind = "Panic"
                      THEN [kind |-> "Panic", ranges |-> merged]
                      ELSE IF again.kind = "None"
                      THEN [kind |-> "Ok", ranges |-> merged]
                      ELSE [kind |-> "Ok",
                            ranges |-> RemoveAt([merged EXCEPT ![i] = again.val],
                                                i + 1)]

\* UUIDGtidSet::add_gtid
UUIDGtidSet_add_gtid(ranges, sequence, checks) ==
    AddGtidFrom(ranges, GtidRange_new(sequence, sequence).val, 1, checks)

\* UUIDGtidSet::contains
UUIDGtidSet_contains(ranges, sequence) ==
    \E i \in DOMAIN ranges : GtidRange_contains(ranges[i], sequence)

UUIDGtidSet(uuid, ranges) == [uuid |-> uuid, ranges |-> ranges]

\* BTreeMap: contains_key, get, insert
HasUuid(set, uuid) == \E e \in set : e.uuid = uuid
RangesOf(set, uuid) == (CHOOSE e \in set : e.uuid = uuid).ranges
Insert(set, uuid, ranges) ==
    {e \in set : e.uuid # uuid} \cup {UUIDGtidSet(uuid, ranges)}

\* str::split(sep): the pieces between the separators; from is where the
\* current piece starts, i the character looked at
RECURSIVE SplitFrom(_, _, _, _)
SplitFrom(chars, sep, from, i) ==
    IF i > Len(chars) THEN <<SubSeq(chars, from, Len(chars))>>
    ELSE IF chars[i] = sep
         THEN <<SubSeq(chars, from, i - 1)>> \o SplitFrom(chars, sep, i + 1, i + 1)
    ELSE SplitFrom(chars, sep, from, i + 1)

Split(chars, sep) == SplitFrom(chars, sep, 1, 1)

\* GtidSet::add_gtid(gtid), gtid of the form "uuid:sequence"
GtidSet_add_gtid(set, gtid, checks) ==
    LET parts == Split(gtid, 58)
        sequence == ParseU64(parts[2])
        uuid == parts[1]
        entered == IF HasUuid(set, uuid) THEN set ELSE Insert(set, uuid, <<>>)
        added == UUIDGtidSet_add_gtid(RangesOf(entered, uuid), sequence.val, checks)
    IN  IF Len(parts) # 2 THEN [kind |-> "Err", set |-> set]
        ELSE IF ~sequence.ok THEN [kind |-> "Err", set |-> set]
        ELSE [kind |-> added.kind, set |-> Insert(entered, uuid, added.ranges)]

\* GtidSet::contains(gtid)
GtidSet_contains(set, gtid) ==
    LET parts == Split(gtid, 58)
        sequence == ParseU64(parts[2])
    IN  /\ Len(parts) = 2
        /\ sequence.ok
        /\ HasUuid(set, parts[1])
        /\ UUIDGtidSet_contains(RangesOf(set, parts[1]), sequence.val)

Remainder_left_only(range, other_range) ==
    IF U64Lt(range.end, other_range.start) \/ U64Lt(other_range.end, range.start)
    THEN <<range>>
    ELSE IF U64Lt(range.start, other_range.start)
         THEN <<GtidRange_new(range.start, WrappingDec(other_range.start)).val>>
         ELSE <<>>

\* what subtract keeps of one range of the result when other_range is taken
\* out of it: the range itself, or the parts left and right of other_range
Remainder(range, other_range) ==
    IF U64Lt(range.end, other_range.start) \/ U64Lt(other_range.end, range.start)
    THEN <<range>>
    ELSE (IF U64Lt(range.start, other_range.start)
          THEN <<GtidRange_new(range.start, WrappingDec(other_range.start)).val>>
          ELSE <<>>)
         \o (IF U64Lt(other_range.end, range.end)
             THEN <<GtidRange_new(WrappingInc(other_range.end), range.end).val>>
             ELSE <<>>)

\* for range in &result_set.ranges { .. }: the new_ranges
RECURSIVE SubtractRange(_, _)
SubtractRange(ranges, other_range) ==
    IF ranges = <<>> THEN <<>>
    ELSE Remainder(ranges[1], other_range)
         \o SubtractRange(Tail(ranges), other_range)

\* for other_range in &other_set.ranges { .. result_set.ranges = new_ranges }
RECURSIVE SubtractRanges(_, _)
SubtractRanges(ranges, other_ranges) ==
    IF other_ranges = <<>> THEN ranges
    ELSE SubtractRanges(SubtractRange(ranges, other_ranges[1]), Tail(other_ranges))

\* GtidSet::subtract
GtidSet_subtract(self, other) ==
    { IF HasUuid(other, e.uuid)
      THEN UUIDGtidSet(e.uuid, SubtractRanges(e.ranges, RangesOf(other, e.uuid)))
      ELSE e : e \in self }

IsHexDigit(c) == IsDigit(c) \/ (c >= 97 /\ c <= 102) \/ (c >= 65 /\ c <= 70)

\* the loop of is_uuid_start over chars[i], i from pos to stop - 1 (0-based)
RECURSIVE UuidScan(_, _, _, _)
UuidScan(chars, i, stop, hex_count) ==
    IF i >= stop THEN FALSE
    ELSE IF IsHexDigit(chars[i + 1]) \/ chars[i + 1] = 45
         THEN UuidScan(chars, i + 1, stop, hex_count + 1)
    ELSE IF chars[i + 1] = 58 THEN hex_count > 8
    ELSE FALSE

\* is_uuid_start(chars, pos), pos 0-based
is_uuid_start(chars, pos) ==
    IF pos + 3 >= Len(chars) THEN FALSE
    ELSE UuidScan(chars, pos, IF pos + 10 < Len(chars) THEN pos + 10 ELSE Len(chars), 0)

\* while i < chars.len() && chars[i] != ':' { i += 1 }
RECURSIVE SkipToColon(_, _)
SkipToColon(chars, i) ==
    IF i < Len(chars) /\ chars[i + 1] # 58 THEN SkipToColon(chars, i + 1) ELSE i

\* the loop of parse that finds the end of the ranges of one UUID
RECURSIVE SkipRanges(_, _)
SkipRanges(chars, i) ==
    IF (i < Len(chars) /\ chars[i + 1] # 44)
       \/ (i > 0 /\ i + 1 < Len(chars) /\ is_uuid_start(chars, i + 1))
    THEN IF chars[i + 1] = 44 /\ is_uuid_start(chars, i + 1)
         THEN i
         ELSE SkipRanges(chars, i + 1)
    ELSE i

IsSpace(c) == c \in {32, 9, 10, 11, 12, 13}

RECURSIVE TrimStart(_)
TrimStart(chars) ==
    IF chars # <<>> /\ IsSpace(chars[1]) THEN TrimStart(Tail(chars)) ELSE chars

RECURSIVE TrimEnd(_)
TrimEnd(chars) ==
    IF chars # <<>> /\ IsSpace(chars[Len(chars)])
    THEN TrimEnd(SubSeq(chars, 1, Len(chars) - 1)) ELSE chars

\* str::trim
Trim(chars) == TrimEnd(TrimStart(chars))

Contains(chars, c) == \E i \in DOMAIN chars : chars[i] = c

\* the loop of parse over the parts of ranges_str; uuid_ranges is
\* uuid_gtid_set.ranges so far
RECURSIVE ParseRangeParts(_, _, _)
ParseRangeParts(range_parts, uuid_ranges, checks) ==
    IF range_parts = <<>> THEN [kind |-> "Ok", ranges |-> uuid_ranges]
    ELSE LET range_part == Trim(range_parts[1])
             rest == Tail(range_parts)
             parts == Split(range_part, 45)
             start == ParseU64(parts[1])
             end == ParseU64(parts[2])
             range == GtidRange_new(start.val, end.val)
             seq == ParseU64(range_part)
             added == UUIDGtidSet_add_gtid(uuid_ranges, seq.val, checks)
         IN  IF range_part = <<>> THEN ParseRangeParts(rest, uuid_ranges, checks)
             ELSE IF Contains(range_part, 45) /\ range_part[1] # 45
             THEN IF Len(parts) # 2 THEN ParseRangeParts(rest, uuid_ranges, checks)
                  ELSE IF ~start.ok \/ ~end.ok \/ ~range.ok
                  THEN [kind |-> "Err", ranges |-> uuid_ranges]
                  ELSE ParseRangeParts(rest, Append(uuid_ranges, range.val), checks)
             ELSE IF ~seq.ok THEN [kind |-> "Err", ranges |-> uuid_ranges]
             ELSE IF added.kind = "Panic" THEN added
             ELSE ParseRangeParts(rest, added.ranges, checks)

\* the outer loop of parse from index i (0-based) with the set built so far
RECURSIVE ParseFrom(_, _, _, _)
ParseFrom(chars, i, set, checks) ==
    IF i >= Len(chars) THEN [kind |-> "Ok", set |-> set]
    ELSE LET colon == SkipToColon(chars, i)
             uuid == SubSeq(chars, i + 1, colon)
             ranges_start == colon + 1
             ranges_end == SkipRanges(chars, ranges_start)
             ranges_str == SubSeq(chars, ranges_start + 1, ranges_end)
             parsed == ParseRangeParts(Split(ranges_str, 44), <<>>, checks)
             next == IF ranges_end < Len(chars) /\ chars[ranges_end + 1] = 44
                     THEN ranges_end + 1 ELSE ranges_end
         IN  IF colon >= Len(chars) THEN [kind |-> "Ok", set |-> set]
             ELSE IF parsed.kind # "Ok" THEN [kind |-> parsed.kind, set |-> {}]
             ELSE ParseFrom(chars, next, Insert(set, uuid, parsed.ranges), checks)

S_NULL == <<78, 85, 76, 76>>

\* GtidSet::parse
GtidSet_parse(gtid_str, checks) ==
    IF gtid_str = <<>> \/ gtid_str = S_NULL THEN [kind |-> "Ok", set |-> {}]
    ELSE ParseFrom(gtid_str, 0, {}, checks)

\* x divided by 10 over the 8 bytes, most significant first: quotient q and
\* remainder r
DivMod10(x) ==
    LET c8 == x[8]
        c7 == (c8 % 10) * 256 + x[7]
        c6 == (c7 % 10) * 256 + x[6]
        c5 == (c6 % 10) * 256 + x[5]
        c4 == (c5 % 10) * 256 + x[4]
        c3 == (c4 % 10) * 256 + x[3]
        c2 == (c3 % 10) * 256 + x[2]
        c1 == (c2 % 10) * 256 + x[1]
    IN  [q |-> <<c1 \div 10, c2 \div 10, c3 \div 10, c4 \div 10,
                 c5 \div 10, c6 \div 10, c7 \div 10, c8 \div 10>>,
         r |-> c1 % 10]

\* the decimal digits of x, none for 0
RECURSIVE U64Digits(_)
U64Digits(x) ==
    IF x = U64Zero THEN <<>>
    ELSE With(DivMod10(x), LAMBDA d : U64Digits(d.q) \o <<48 + d.r>>)

\* u64::to_string
U64ToString(x) == IF x = U64Zero THEN <<48>> ELSE U64Digits(x)

\* Vec<String>::join(sep)
RECURSIVE Join(_, _)
Join(strs, sep) ==
    IF strs = <<>> THEN <<>>
    ELSE IF Len(strs) = 1 THEN strs[1]
    ELSE strs[1] \o sep \o Join(Tail(strs), sep)

\* the closure of UUIDGtidSet::to_string: N for a singleton, N-M otherwise
RangeToString(r) ==
    IF r.start = r.end THEN U64ToString(r.start)
    ELSE U64ToString(r.start) \o <<45>> \o U64ToString(r.end)

RECURSIVE RangeStrs(_)
RangeStrs(ranges) ==
    IF ranges = <<>> THEN <<>>
    ELSE <<RangeToString(ranges[1])>> \o RangeStrs(Tail(ranges))

\* UUIDGtidSet::to_string
UUIDGtidSet_to_string(ranges) == Join(RangeStrs(ranges), <<44>>)

\* the Ord of String: byte by byte, a proper prefix first
RECURSIVE StrLt(_, _)
StrLt(a, b) ==
    IF b = <<>> THEN FALSE
    ELSE IF a = <<>> THEN TRUE
    ELSE IF a[1] # b[1] THEN a[1] < b[1]
    ELSE StrLt(Tail(a), Tail(b))

\* the loop of GtidSet::to_string over the BTreeMap in key order: the parts
RECURSIVE SetParts(_)
SetParts(set) ==
    IF set = {} THEN <<>>
    ELSE LET first == CHOOSE e \in set : \A o \in set : o = e \/ StrLt(e.uuid, o.uuid)
             ranges_str == UUIDGtidSet_to_string(first.ranges)
         IN  (IF ranges_str # <<>> THEN <<first.uuid \o <<58>> \o ranges_str>> ELSE <<>>)
             \o SetParts(set \ {first})

\* GtidSet::to_string
GtidSet_to_string(set) ==
    IF set = {} THEN <<>> ELSE Join(SetParts(set), <<44>>)

\* no library call made
NoCall == [op |-> "none", arg |-> <<>>, result |-> "none"]
Call(op, arg, result) == [op |-> op, arg |-> arg, result |-> result]

\* GtidSet::new(), nothing called
LibIdle ==
    /\ gtid_set = {}
    /\ call = NoCall
    /\ overflow_checks = TRUE

\* n in decimal
RECURSIVE Dec(_)
Dec(n) == IF n < 10 THEN <<48 + n>> ELSE Dec(n \div 10) \o <<48 + (n % 10)>>

\* "abcdef012": nine hex digits, which is_uuid_start takes for a UUID
U_a == <<97, 98, 99, 100, 101, 102, 48, 49, 50>>
\* "b2"
U_b == <<98, 50>>
\* "18446744073709551615", u64::MAX
S_u64_max ==
    <<49, 56, 52, 52, 54, 55, 52, 52, 48, 55, 51, 55, 48, 57, 53, 53, 49, 54, 49,
      53>>

Colon == <<58>>
Comma == <<44>>
Dash == <<45>>

\* the sequence numbers of the inputs, as text
NumTexts == {Dec(n) : n \in 1..MaxSeq} \cup {S_u64_max}
\* the range parts of the inputs: N, N-M (N > M included) and MaxSeq-u64::MAX
RangeTexts ==
    NumTexts
    \cup {Dec(n) \o Dash \o Dec(m) : n, m \in 1..MaxSeq}
    \cup {Dec(MaxSeq) \o Dash \o S_u64_max}

\* the arguments of add_gtid and contains: uuid:N, and two that are not GTIDs
Gtids ==
    {U_a \o Colon \o n : n \in NumTexts}
    \cup {U_b \o Colon \o Dec(1)}
    \cup {U_a, U_a \o Colon \o <<120>>}

\* the arguments of parse
ParseInputs ==
    {<<>>, S_NULL}
    \cup {U_a \o Colon \o r : r \in RangeTexts}
    \cup {U_a \o Colon \o Dec(1) \o Dash \o Dec(2) \o Comma \o U_b \o Colon \o Dec(1),
          U_a \o Colon \o Dec(1) \o Comma \o Dec(3),
          U_a \o Colon \o Dec(1) \o Colon \o Dec(3),
          U_a \o Colon \o Dec(1) \o Dash \o Dec(2) \o Dash \o Dec(3)}

\* the sets subtract is given: one range of one UUID, a second UUID, and a
\* set of two ranges
OtherSets ==
    LET parsed == {GtidSet_parse(U_a \o Colon \o r, TRUE) : r \in RangeTexts}
                  \cup {GtidSet_parse(U_b \o Colon \o Dec(1), TRUE)}
        sets == {r.set : r \in {x \in parsed : x.kind = "Ok"}}
        one == GtidSet_parse(U_a \o Colon \o Dec(1), TRUE).set
    IN  sets \cup {GtidSet_add_gtid(one, U_a \o Colon \o Dec(MaxSeq), TRUE).set}

\* let set = GtidSet::parse(gtid_str)?
GtidParse ==
    /\ call = NoCall
    /\ \E gtid_str \in ParseInputs :
        LET r == GtidSet_parse(gtid_str, overflow_checks)
        IN  /\ gtid_set' = r.set
            /\ call' = Call("parse", gtid_str, r.kind)
    /\ UNCHANGED <<overflow_checks, clientVars, engineVars>>

\* set.add_gtid(gtid)
GtidAdd ==
    /\ \E gtid \in Gtids :
        LET r == GtidSet_add_gtid(gtid_set, gtid, overflow_checks)
        IN  /\ \A e \in r.set : Len(e.ranges) <= MaxRanges
            /\ gtid_set' = r.set
            /\ call' = Call("add_gtid", gtid, r.kind)
    /\ UNCHANGED <<overflow_checks, clientVars, engineVars>>

\* set = set.subtract(&other)
GtidSubtract ==
    /\ \E other \in OtherSets :
        /\ gtid_set' = GtidSet_subtract(gtid_set, other)
        /\ call' = Call("subtract", other, "Ok")
    /\ UNCHANGED <<overflow_checks, clientVars, engineVars>>

-----------------------------------------------------------------------------
(* binlog.rs: the rows events. A Cursor over data is data and a position   *)
(* counted from 0; a read returns [ok, val, pos]. A read that fails at the *)
(* end of the data leaves the position where it was or moves it to the end *)
(* of the data, depending on the standard library the crate is built with  *)
(* (seek_end). A CellValue is [tag, val], val the little-endian bytes of   *)
(* the value.                                                              *)

\* Cursor::read_exact of n bytes (read_u8, read_u16, read_u24, read_u32, ...)
read_exact(data, pos, n, seek_end) ==
    IF pos + n <= Len(data)
    THEN [ok |-> TRUE, val |-> SubSeq(data, pos + 1, pos + n), pos |-> pos + n]
    ELSE [ok |-> FALSE, val |-> <<>>,
          pos |-> IF seek_end THEN Len(data) ELSE pos]

\* read_lcb: u64 is the value returned, as its 8 little-endian bytes, val its
\* low 24 bits; big says that a 0xfe value does not fit in 24 bits
read_lcb(data, pos, seek_end) ==
    With(read_exact(data, pos, 1, seek_end), LAMBDA b :
        IF ~b.ok THEN [ok |-> FALSE, val |-> 0, big |-> FALSE, u64 |-> <<>>, pos |-> b.pos]
        ELSE IF b.val[1] <= 250
            THEN [ok |-> TRUE, val |-> b.val[1], big |-> FALSE,
                  u64 |-> <<b.val[1]>> \o Zeros(7), pos |-> b.pos]
        ELSE IF b.val[1] = 251
            THEN [ok |-> TRUE, val |-> 0, big |-> FALSE, u64 |-> Zeros(8), pos |-> b.pos]
        ELSE IF b.val[1] = 255
            THEN [ok |-> FALSE, val |-> 0, big |-> FALSE, u64 |-> <<>>, pos |-> b.pos]
        ELSE With(read_exact(data, b.pos, IF b.val[1] \in {252, 253} THEN 3 ELSE 8,
                             seek_end), LAMBDA r :
                IF ~r.ok
                THEN [ok |-> FALSE, val |-> 0, big |-> FALSE, u64 |-> <<>>, pos |-> r.pos]
                ELSE [ok |-> TRUE,
                      val |-> FromLE(SubSeq(r.val, 1, 3)),
                      big |-> b.val[1] = 254 /\ SubSeq(r.val, 4, 8) # <<0, 0, 0, 0, 0>>,
                      u64 |-> r.val \o Zeros(8 - Len(r.val)),
                      pos |-> r.pos]))

CellValue(tag, val) == [tag |-> tag, val |-> val]

\* (present_bitmap[byte_idx] & (1 << bit_idx)) != 0
BitSet(byte, bit_idx) == (byte \div Pow(2, bit_idx)) % 2 = 1

\* parse_row_data, one column: the cell pushed, if any, and the position after
ReadCell(data, pos, seek_end) ==
    With(read_exact(data, pos, 1, seek_end), LAMBDA t :
        IF ~t.ok THEN [cell |-> None, pos |-> t.pos]
        ELSE IF t.val[1] = 0
            THEN [cell |-> Some(CellValue("Null", <<>>)), pos |-> t.pos]
        ELSE IF t.val[1] \in {1, 2, 4}
            THEN With(read_exact(data, t.pos, t.val[1], seek_end), LAMBDA v :
                    [cell |-> IF v.ok
                              THEN Some(CellValue(IF t.val[1] = 1 THEN "UInt8"
                                                  ELSE IF t.val[1] = 2 THEN "UInt16"
                                                  ELSE "UInt32", v.val))
                              ELSE None,
                     pos |-> v.pos])
        ELSE [cell |-> Some(CellValue("Bytes", t.val)), pos |-> t.pos])

\* parse_row_data, the loop over the columns from col_idx on
RECURSIVE RowFrom(_, _, _, _, _, _, _)
RowFrom(data, pos, column_count, present_bitmap, col_idx, row, seek_end) ==
    IF col_idx >= column_count THEN [row |-> row, pos |-> pos]
    ELSE IF \/ col_idx \div 8 >= Len(present_bitmap)
            \/ ~BitSet(present_bitmap[(col_idx \div 8) + 1], col_idx % 8)
        THEN RowFrom(data, pos, column_count, present_bitmap, col_idx + 1,
                     Append(row, CellValue("Null", <<>>)), seek_end)
    ELSE With(ReadCell(data, pos, seek_end), LAMBDA c :
            With(IF c.cell.some THEN Append(row, c.cell.val) ELSE row, LAMBDA pushed :
                RowFrom(data, c.pos, column_count, present_bitmap, col_idx + 1,
                        pushed, seek_end)))

\* parse_row_data: at most one row
parse_row_data(data, pos, column_count, present_bitmap, seek_end) ==
    With(RowFrom(data, pos, column_count, present_bitmap, 0, <<>>, seek_end),
         LAMBDA r : [rows |-> IF r.row # <<>> THEN <<r.row>> ELSE <<>>, pos |-> r.pos])

ParseErr == [kind |-> "Err"]

\* the part the three rows events share: table id, flags, column count and
\* the first bitmap. kind is "Ok", "Err", or "Abort" for a column count whose
\* bitmap cannot be allocated.
RowsEventHead(data, seek_end) ==
    IF Len(data) < 6 THEN ParseErr
    ELSE With(read_exact(data, 6, 2, seek_end), LAMBDA flags :
        IF ~flags.ok THEN ParseErr
        ELSE With(read_lcb(data, flags.pos, seek_end), LAMBDA cc :
            IF ~cc.ok THEN ParseErr
            ELSE IF cc.big THEN [kind |-> "Abort"]
            ELSE With(read_exact(data, cc.pos, (cc.val + 7) \div 8, seek_end),
                      LAMBDA present :
                IF ~present.ok THEN ParseErr
                ELSE [kind |-> "Ok",
                      table_id |-> SubSeq(data, 1, 6) \o <<0, 0>>,
                      flags |-> FromLE(flags.val),
                      column_count |-> cc.val,
                      bitmap_bytes |-> (cc.val + 7) \div 8,
                      columns_present |-> present.val,
                      pos |-> present.pos])))

\* WriteRowsData / DeleteRowsData
RowsData(h, rows) ==
    [kind |-> "Ok", table_id |-> h.table_id, flags |-> h.flags,
     column_count |-> h.column_count, columns_present |-> h.columns_present,
     rows |-> rows]

\* BinlogParser::parse_write_rows_event
parse_write_rows_event(data, seek_end) ==
    With(RowsEventHead(data, seek_end), LAMBDA h :
        IF h.kind # "Ok" THEN h
        ELSE RowsData(h, parse_row_data(data, h.pos, h.column_count,
                                        h.columns_present, seek_end).rows))

\* BinlogParser::parse_delete_rows_event
parse_delete_rows_event(data, seek_end) ==
    With(RowsEventHead(data, seek_end), LAMBDA h :
        IF h.kind # "Ok" THEN h
        ELSE RowsData(h, parse_row_data(data, h.pos, h.column_count,
                                        h.columns_present, seek_end).rows))

\* parse_update_rows_event, one iteration of the while loop: the before image
\* read at pos and, when there is one, the after image
UpdateStep(data, pos, column_count, present, changed, seek_end) ==
    With(parse_row_data(data, pos, column_count, present, seek_end), LAMBDA before :
        [before |-> before.rows,
         after |-> IF before.rows = <<>> THEN before
                   ELSE parse_row_data(data, before.pos, column_count, changed,
                                       seek_end)])

\* parse_update_rows_event, the while loop: the row pairs, or hang when an
\* iteration that continues has read nothing (it then repeats for ever)
RECURSIVE UpdatePairs(_, _, _, _, _, _, _)
UpdatePairs(data, pos, column_count, present, changed, rows, seek_end) ==
    IF pos >= Len(data) THEN [hang |-> FALSE, rows |-> rows]
    ELSE With(UpdateStep(data, pos, column_count, present, changed, seek_end),
              LAMBDA st :
            IF st.before = <<>> THEN [hang |-> FALSE, rows |-> rows]
            ELSE IF st.after.pos = pos THEN [hang |-> TRUE, rows |-> rows]
            ELSE With(IF st.after.rows # <<>>
                      THEN Append(rows, <<st.before[1], st.after.rows[1]>>)
                      ELSE rows, LAMBDA pushed :
                    UpdatePairs(data, st.after.pos, column_count, present, changed,
                                pushed, seek_end)))

\* BinlogParser::parse_update_rows_event
parse_update_rows_event(data, seek_end) ==
    With(RowsEventHead(data, seek_end), LAMBDA h :
        IF h.kind # "Ok" THEN h
        ELSE With(read_exact(data, h.pos, h.bitmap_bytes, seek_end), LAMBDA changed :
            IF ~changed.ok THEN ParseErr
            ELSE With(UpdatePairs(data, changed.pos, h.column_count,
                                  h.columns_present, changed.val, <<>>, seek_end),
                      LAMBDA pairs :
                IF pairs.hang THEN [kind |-> "Hang"]
                ELSE [kind |-> "Ok", table_id |-> h.table_id, flags |-> h.flags,
                      column_count |-> h.column_count,
                      columns_present |-> h.columns_present,
                      columns_changed |-> changed.val,
                      rows |-> pairs.rows])))

-----------------------------------------------------------------------------
(* binlog.rs, events.rs: the event header. A u32 is held as its two 16-bit *)
(* halves [lo, hi].                                                        *)

EVENT_HEADER_SIZE == 19

\* Cursor::read_u32::<LittleEndian>
U32FromLE(bs) == [lo |-> bs[1] + 256 * bs[2], hi |-> bs[3] + 256 * bs[4]]

\* EventType::from_u8
EventType_from_u8(val) ==
    CASE val = 4 -> "RotateEvent"
      [] val = 2 -> "QueryEvent"
      [] val = 19 -> "TableMapEvent"
      [] val = 30 -> "WriteRowsEvent"
      [] val = 31 -> "UpdateRowsEvent"
      [] val = 32 -> "DeleteRowsEvent"
      [] val = 33 -> "GtidEvent"
      [] val = 34 -> "AnonymousGtidEvent"
      [] val = 36 -> "RowsQueryEvent"
      [] val = 38 -> "TransactionPayloadEvent"
      [] OTHER -> "Unknown"

\* the discriminant of an EventType (#[repr(u8)]), `event_type as u8`
EventType_as_u8(t) ==
    CASE t = "Unknown" -> 0
      [] t = "RotateEvent" -> 4
      [] t = "QueryEvent" -> 2
      [] t = "TableMapEvent" -> 19
      [] t = "WriteRowsEvent" -> 30
      [] t = "UpdateRowsEvent" -> 31
      [] t = "DeleteRowsEvent" -> 32
      [] t = "GtidEvent" -> 33
      [] t = "AnonymousGtidEvent" -> 34
      [] t = "RowsQueryEvent" -> 36
      [] t = "TransactionPayloadEvent" -> 38

\* BinlogParser::parse_header: the EventHeader and the cursor position
parse_header(data) ==
    IF Len(data) < EVENT_HEADER_SIZE
    THEN [kind |-> "Err",
          err |-> Err("BinlogParseError", "Invalid event header: too short")]
    ELSE [kind |-> "Ok",
          header |-> [timestamp |-> U32FromLE(SubSeq(data, 1, 4)),
                      event_type |-> EventType_from_u8(data[5]),
                      server_id |-> U32FromLE(SubSeq(data, 6, 9)),
                      event_length |-> U32FromLE(SubSeq(data, 10, 13)),
                      next_pos |-> U32FromLE(SubSeq(data, 14, 17)),
                      flags |-> data[18] + 256 * data[19]],
          pos |-> 19]

-----------------------------------------------------------------------------
(* binlog.rs: the table map and query events. A String is the bytes of its  *)
(* UTF-8 text.                                                             *)

\* String::from_utf8_lossy(..).to_string(), for byte strings of ASCII
\* characters, two-byte sequences and bytes that begin no sequence: a byte
\* that is no part of a character becomes U+FFFD (EF BF BD)
RECURSIVE from_utf8_lossy(_)
from_utf8_lossy(bs) ==
    IF bs = <<>> THEN <<>>
    ELSE IF bs[1] < 128 THEN <<bs[1]>> \o from_utf8_lossy(Tail(bs))
    ELSE IF /\ bs[1] \in 194..223
            /\ Len(bs) >= 2
            /\ bs[2] \in 128..191
        THEN <<bs[1], bs[2]>> \o from_utf8_lossy(Tail(Tail(bs)))
    ELSE <<239, 191, 189>> \o from_utf8_lossy(Tail(bs))

\* BinlogParser::parse_table_map_event. kind is "Ok", "Err", or "Abort" for
\* a length whose buffer cannot be allocated.
parse_table_map_event(data, seek_end) ==
    IF Len(data) < 8 THEN ParseErr
    ELSE With(read_exact(data, 8, 1, seek_end), LAMBDA db_len :
        IF ~db_len.ok THEN ParseErr
        ELSE With(read_exact(data, db_len.pos, db_len.val[1], seek_end), LAMBDA db_bytes :
        IF ~db_bytes.ok THEN ParseErr
        ELSE With(read_exact(data, db_bytes.pos, 1, seek_end), LAMBDA tbl_len :
        IF ~tbl_len.ok THEN ParseErr
        ELSE With(read_exact(data, tbl_len.pos, tbl_len.val[1], seek_end), LAMBDA tbl_bytes :
        IF ~tbl_bytes.ok THEN ParseErr
        ELSE With(read_lcb(data, tbl_bytes.pos, seek_end), LAMBDA column_count :
        IF ~column_count.ok THEN ParseErr
        ELSE IF column_count.big THEN [kind |-> "Abort"]
        ELSE With(read_exact(data, column_count.pos, column_count.val, seek_end),
                  LAMBDA column_types :
        IF ~column_types.ok THEN ParseErr
        ELSE With(read_lcb(data, column_types.pos, seek_end), LAMBDA metadata_length :
        IF ~metadata_length.ok THEN ParseErr
        ELSE IF metadata_length.big THEN [kind |-> "Abort"]
        ELSE With(read_exact(data, metadata_length.pos, metadata_length.val, seek_end),
                  LAMBDA metadata :
        IF ~metadata.ok THEN ParseErr
        ELSE With(read_exact(data, metadata.pos, (column_count.val + 7) \div 8, seek_end),
                  LAMBDA nullable_bitmap :
        IF ~nullable_bitmap.ok THEN ParseErr
        ELSE [kind |-> "Ok",
              table_id |-> SubSeq(data, 1, 6) \o <<0, 0>>,
              database |-> from_utf8_lossy(db_bytes.val),
              table |-> from_utf8_lossy(tbl_bytes.val),
              column_types |-> column_types.val,
              column_meta |-> [i \in 1..column_count.val |-> <<>>],
              nullable_bitmap |-> nullable_bitmap.val])))))))))

\* BinlogParser::parse_query_event. The cursor is set past the status
\* variables without a test against the end of data; kind is "Panic" when
\* the slice of the query then starts behind the end.
parse_query_event(data, seek_end) ==
    IF Len(data) < 13 THEN ParseErr
    ELSE With(13 + FromLE(SubSeq(data, 12, 13)), LAMBDA after_status :
        With(IF data[9] > 0
             THEN IF after_status + data[9] <= Len(data)
                  THEN [ok |-> TRUE,
                        val |-> SubSeq(data, after_status + 1, after_status + data[9]),
                        pos |-> after_status + data[9]]
                  ELSE [ok |-> FALSE, val |-> <<>>, pos |-> after_status]
             ELSE [ok |-> TRUE, val |-> <<>>, pos |-> after_status], LAMBDA db_bytes :
        IF ~db_bytes.ok THEN ParseErr
        ELSE With(IF db_bytes.pos + 1 <= Len(data) THEN db_bytes.pos + 1
                  ELSE IF seek_end THEN Len(data)
                  ELSE db_bytes.pos, LAMBDA pos :
             IF pos > Len(data) THEN [kind |-> "Panic"]
             ELSE [kind |-> "Ok",
                   thread_id |-> U32FromLE(SubSeq(data, 1, 4)),
                   exec_time |-> U32FromLE(SubSeq(data, 5, 8)),
                   database |-> from_utf8_lossy(db_bytes.val),
                   query |-> from_utf8_lossy(SubSeq(data, pos + 1, Len(data)))])))

-----------------------------------------------------------------------------
(* cdc_engine.rs: the change records. A HashMap<String, CellValue> is the  *)
(* set of its [key, value] entries; the timestamp (Utc::now()) is left out. *)

\* HashMap::insert
MapInsert(m, k, v) == {e \in m : e.key # k} \cup {[key |-> k, value |-> v]}

Keys(m) == {e.key : e \in m}

\* for (i, col_name) in table.columns.iter().enumerate() { if i < row.len() .. }
RECURSIVE RowMapFrom(_, _, _, _)
RowMapFrom(columns, row, i, m) ==
    IF i > Len(columns) THEN m
    ELSE RowMapFrom(columns, row, i + 1,
                    IF i <= Len(row) THEN MapInsert(m, columns[i], row[i]) ELSE m)

RowMap(columns, row) == RowMapFrom(columns, row, 1, {})

ChangeEvent(op, db, table, before, after, query) ==
    [gtid |-> None, op |-> op, database |-> db, table |-> table,
     before |-> before, after |-> after, query |-> query]

\* CdcEngine::write_rows_to_change_event
write_rows_to_change_event(data, table) ==
    [i \in DOMAIN data.rows |->
        LET row == data.rows[i]
        IN  ChangeEvent("Insert", table.database, table.table,
                            None, Some(RowMap(table.columns, row)), None)]

\* CdcEngine::update_rows_to_change_event
update_rows_to_change_event(data, table) ==
    [i \in DOMAIN data.rows |->
        LET pair == data.rows[i]
        IN  ChangeEvent("Update", table.database, table.table,
                             Some(RowMap(table.columns, pair[1])),
                             Some(RowMap(table.columns, pair[2])), None)]

delete_rows_sets_after(data, table) ==
    [i \in DOMAIN data.rows |->
        LET row == data.rows[i]
        IN  ChangeEvent("Delete", table.database, table.table,
                            Some(RowMap(table.columns, row)),
                            Some(RowMap(table.columns, row)), None)]

\* CdcEngine::delete_rows_to_change_event
delete_rows_to_change_event(data, table) ==
    [i \in DOMAIN data.rows |->
        LET row == data.rows[i]
        IN  ChangeEvent("Delete", table.database, table.table,
                            Some(RowMap(table.columns, row)), None, None)]

\* char::to_uppercase of an ASCII byte
UpperByte(b) == IF b >= 97 /\ b <= 122 THEN b - 32 ELSE b

\* str::to_uppercase of an ASCII string
RECURSIVE to_uppercase(_)
to_uppercase(s) ==
    IF s = <<>> THEN <<>> ELSE <<UpperByte(Head(s))>> \o to_uppercase(Tail(s))

\* str::starts_with
starts_with(s, prefix) ==
    Len(s) >= Len(prefix) /\ SubSeq(s, 1, Len(prefix)) = prefix

S_CREATE == <<67, 82, 69, 65, 84, 69>>
S_ALTER == <<65, 76, 84, 69, 82>>
S_DROP == <<68, 82, 79, 80>>

\* CdcEngine::query_to_change_event
query_to_change_event(cfg, data) ==
    LET upper_query == to_uppercase(data.query)
    IN  IF ~cfg.include_ddl THEN None
        ELSE IF \/ starts_with(upper_query, S_CREATE)
                \/ starts_with(upper_query, S_ALTER)
                \/ starts_with(upper_query, S_DROP)
            THEN Some(ChangeEvent("Ddl", data.database, <<>>, None, None,
                                  Some(data.query)))
        ELSE None

-----------------------------------------------------------------------------
(* The sessions of one BinlogClient *)

Init ==
    /\ client \in ClientChoices
    /\ NoSessions
    /\ EngineIdle
    /\ LibIdle

Next ==
    \E s \in Sessions :
        \/ StartStreaming(s)
        \/ Connect(s)
        \/ ReadGreeting(s)
        \/ WriteHandshakeResponse(s)
        \/ ReadAuthResult(s)
        \/ WriteChecksumQuery(s)
        \/ ReadChecksumResult(s)
        \/ WriteBinlogDump(s)
        \/ StreamRead(s)

Spec == Init /\ [][Next]_vars

-----------------------------------------------------------------------------
(* One CdcEngine *)

InitEngine ==
    /\ client \in {c \in ClientChoices : c.config.server_id = 1}
    /\ NoSessions
    /\ \E cfg \in EngineConfigs : NewEngine(cfg)
    /\ LibIdle

NextEngine ==
    \/ Start
    \/ StreamBinlog
    \/ Stop

SpecEngine == InitEngine /\ [][NextEngine]_vars

-----------------------------------------------------------------------------
(* One GtidSet, in a build with or without overflow checks *)

InitGtid ==
    /\ client \in {c \in ClientChoices : c.config.server_id = 1}
    /\ NoSessions
    /\ EngineIdle
    /\ gtid_set = {}
    /\ call = NoCall
    /\ overflow_checks \in BOOLEAN

NextGtid ==
    \/ GtidParse
    \/ GtidAdd
    \/ GtidSubtract

SpecGtid == InitGtid /\ [][NextGtid]_vars

-----------------------------------------------------------------------------
(* The text form of GTID sets: parse, to_string, and GtidRange::merge, in   *)
(* a build with or without overflow checks                                *)

\* [lo-hi] with lo, hi below 2^32
SmallRange(lo, hi) == Range(U64(lo, 0), U64(hi, 0))

\* range parts separated by colons, "1-100:200:300-400"
S_1_100_200_300_400 ==
    Dec(1) \o Dash \o Dec(100) \o Colon \o Dec(200) \o Colon \o Dec(300) \o Dash \o Dec(400)

\* the arguments of parse: one or two UUIDs with one range part each, range
\* parts separated by colons and by commas, and texts that are no GTID sets
TextInputs ==
    {<<>>, S_NULL, U_a, U_a \o Colon \o <<120>>}
    \cup {U_a \o Colon \o Dec(n) : n \in 0..MaxSeq}
    \cup {U_a \o Colon \o Dec(n) \o Dash \o Dec(m) : n, m \in 1..MaxSeq}
    \cup {U_a \o Colon \o S_u64_max,
          U_a \o Colon \o S_1_100_200_300_400,
          U_a \o Colon \o Dec(1) \o Colon \o Dec(3),
          U_a \o Colon \o Dec(1) \o Dash \o Dec(2) \o Colon \o Dec(4) \o Dash \o Dec(5),
          U_a \o Colon \o Dec(1) \o Comma \o Dec(3),
          U_a \o Colon \o Dec(1) \o Dash \o Dec(2) \o Dash \o Dec(3),
          U_a \o Colon \o Dec(1) \o Dash \o Dec(2) \o Comma \o U_b \o Colon \o Dec(1),
          U_b \o Colon \o Dec(2) \o Comma \o U_a \o Colon \o Dec(1)}

\* the arguments of add_gtid
TextGtids == {U_a \o Colon \o Dec(n) : n \in 0..2}

\* the ranges merge is given
MergeRanges ==
    UNION {{SmallRange(n, m) : m \in n..MaxSeq} : n \in 1..MaxSeq}
    \cup {SmallRange(1, 10), SmallRange(11, 20), SmallRange(12, 20),
          Range(U64(MaxSeq, 0), U64Max), Range(U64Max, U64Max)}

\* let set = GtidSet::parse(gtid_str)?
GtidParseText ==
    /\ \E gtid_str \in TextInputs :
        LET r == GtidSet_parse(gtid_str, overflow_checks)
        IN  /\ gtid_set' = r.set
            /\ call' = Call("parse", gtid_str, r.kind)
    /\ UNCHANGED <<overflow_checks, clientVars, engineVars>>

\* set.add_gtid(gtid)
GtidAddText ==
    /\ \E gtid \in TextGtids :
        LET r == GtidSet_add_gtid(gtid_set, gtid, overflow_checks)
        IN  /\ gtid_set' = r.set
            /\ call' = Call("add_gtid", gtid, r.kind)
    /\ UNCHANGED <<overflow_checks, clientVars, engineVars>>

\* set.to_string()
GtidToString ==
    /\ call' = Call("to_string", <<>>, GtidSet_to_string(gtid_set))
    /\ UNCHANGED <<gtid_set, overflow_checks, clientVars, engineVars>>

\* a.merge(&b)
GtidMerge ==
    /\ \E a \in MergeRanges, b \in MergeRanges :
        call' = Call("merge", <<a, b>>, GtidRange_merge(a, b, overflow_checks))
    /\ UNCHANGED <<gtid_set, overflow_checks, clientVars, engineVars>>

NextGtidText ==
    \/ GtidParseText
    \/ GtidAddText
    \/ GtidToString

SpecGtidText == InitGtid /\ [][NextGtidText]_vars

\* GtidRange::merge alone
SpecGtidMerge == InitGtid /\ [][GtidMerge]_vars

-----------------------------------------------------------------------------
(* The decoders: parse_header, read_lcb, read_packet and the parsers of the *)
(* event bodies                                                           *)

\* the type bytes of the EventType values, and some that have none
TypeBytes == {0, 1, 2, 4, 15, 16, 19, 30, 31, 32, 33, 34, 36, 38, 255}

HeaderInputs ==
    { ts \o <<t>> \o sid \o len \o <<120, 0, 0, 0>> \o fl \o rest :
        ts \in {<<0, 0, 0, 0>>, <<255, 255, 255, 255>>},
        t \in TypeBytes,
        sid \in {<<1, 0, 0, 0>>, <<0, 0, 1, 128>>},
        len \in {<<19, 0, 0, 0>>},
        fl \in {<<0, 0>>, <<1, 128>>},
        rest \in {<<>>, <<9>>} }
    \cup {<<>>, Zeros(18)}

LcbTails == {<<1, 0, 5, 0, 0, 0, 0, 128, 7>>, Zeros(9)}
LcbInputs ==
    { <<b>> \o SubSeq(t, 1, n) :
        b \in {0, 1, 250, 251, 252, 253, 254, 255}, t \in LcbTails, n \in 0..9 }

\* the largest length the 3-byte length field of a packet holds
MaxBody == Pow(256, 3) - 1

\* wire packets by the length and the fill byte of their body; the i-th one
\* of a stream carries sequence number i - 1
WirePackets == {[len |-> n, fill |-> b] : n \in {0, 1, 2, MaxBody}, b \in {7}}
PacketLists ==
    {<<p>> : p \in WirePackets}
    \cup {<<p, q>> : p \in WirePackets, q \in WirePackets}
    \cup {<<p, q, r>> : p \in {w \in WirePackets : w.len = MaxBody},
                         q \in WirePackets, r \in WirePackets}

\* the stream a peer sends for the packets: each one's header, then its body
RECURSIVE WireOf(_, _)
WireOf(pkts, sequence) ==
    IF pkts = <<>> THEN <<>>
    ELSE <<Seg(LE(pkts[1].len, 3) \o <<sequence>>, 1)>>
         \o (IF pkts[1].len = 0 THEN <<>>
             ELSE <<Seg(<<pkts[1].fill + sequence>>, pkts[1].len)>>)
         \o WireOf(Tail(pkts), sequence + 1)

\* the stream without its last cut bytes
CutOff(st, cut) == stream_read_exact(st, StreamLen(st) - cut).val

\* table id 1, flags 0
RowsHead == <<1, 0, 0, 0, 0, 0, 0, 0>>

\* sequences of at most n elements of S
RECURSIVE SeqsUpTo(_, _)
SeqsUpTo(S, n) ==
    IF n = 0 THEN {<<>>}
    ELSE SeqsUpTo(S, n - 1)
         \cup {Append(q, x) : q \in {r \in SeqsUpTo(S, n - 1) : Len(r) = n - 1}, x \in S}

RECURSIVE Flatten(_)
Flatten(seqs) == IF seqs = <<>> THEN <<>> ELSE seqs[1] \o Flatten(Tail(seqs))

\* bodies of WRITE_ROWS and DELETE_ROWS events by their parts: the column
\* count, the present bitmap and the row records, each record holding a
\* value for every column
RowsEvents ==
    {[column_count |-> 2, columns_present |-> <<3>>, records |-> recs] :
        recs \in SeqsUpTo({<<1, 5, 1, 6>>, <<2, 1, 0, 0>>, <<0, 7>>}, MaxRows)}
    \cup {[column_count |-> 1, columns_present |-> <<1>>, records |-> recs] :
        recs \in SeqsUpTo({<<1, 5>>, <<4, 1, 0, 0, 128>>}, MaxRows)}

RowsBody(e) ==
    RowsHead \o <<e.column_count>> \o e.columns_present \o Flatten(e.records)

WriteRowsCalls ==
    {Call("parse_write_rows_event", e, parse_write_rows_event(RowsBody(e), seek_end)) :
        e \in RowsEvents, seek_end \in BOOLEAN}
DeleteRowsCalls ==
    {Call("parse_delete_rows_event", e, parse_delete_rows_event(RowsBody(e), seek_end)) :
        e \in RowsEvents, seek_end \in BOOLEAN}

\* bodies of UPDATE_ROWS events: column count, present bitmap, changed bitmap,
\* before and after images
UpdateBodies ==
    { RowsHead \o <<2, 3, 3, 1, 5, 1, 6, 1, 7, 1, 8>>,
      RowsHead \o <<2, 3, 3, 1, 5, 1, 6, 1, 7, 1>>,     \* the after image is cut off
      RowsHead \o <<2, 3, 1, 1, 5, 1, 6, 1, 7>>,        \* one column changed
      RowsHead \o <<1, 1, 1, 1, 5, 1, 6, 1, 7, 1, 8>>,  \* two row pairs
      RowsHead \o <<1, 0, 0, 9>>,                       \* no column present, a trailing byte
      RowsHead \o <<1, 1, 1>>,                          \* no row
      RowsHead \o <<2, 3>> }                            \* no changed bitmap

UpdateRowsCalls ==
    {Call("parse_update_rows_event", data, parse_update_rows_event(data, seek_end)) :
        data \in UpdateBodies, seek_end \in BOOLEAN}

ParseUpdateRows ==
    \E c \in UpdateRowsCalls :
        /\ call' = c
        /\ UNCHANGED <<gtid_set, overflow_checks, clientVars, rotated, engineVars>>

\* TABLE_MAP events by their parts
TableMaps ==
    {[database |-> db, table |-> tbl, column_types |-> types,
      metadata |-> <<>>, nullable_bitmap |-> <<0>>] :
        db \in {<<>>, S_app, S_testdb}, tbl \in {<<116>>, S_repl},
        types \in {<<3>>, <<3, 15>>, <<1, 2, 3, 8>>}}

\* the body of a TABLE_MAP event as the server writes it: table id 1,
\* flags 0, the two names each with its length before and a 0x00 after it,
\* the column count and types, the metadata with its length, the bitmap
TableMapBody(m) ==
    RowsHead \o <<Len(m.database)>> \o m.database \o <<0>>
             \o <<Len(m.table)>> \o m.table \o <<0>>
             \o <<Len(m.column_types)>> \o m.column_types
             \o <<Len(m.metadata)>> \o m.metadata \o m.nullable_bitmap

TableMapCalls ==
    {Call("parse_table_map_event", m, parse_table_map_event(TableMapBody(m), seek_end)) :
        m \in TableMaps, seek_end \in BOOLEAN}

ParseTableMap ==
    \E c \in TableMapCalls :
        /\ call' = c
        /\ UNCHANGED <<gtid_set, overflow_checks, clientVars, rotated, engineVars>>

\* the body of a QUERY event: thread id 1, execution time 0, the length of
\* the database name, error code 0, the length of the status variables
\* as the field gives it, the status variables, the database name with a
\* 0x00 after it, the query
QueryBody(status_len, status, db, query) ==
    <<1, 0, 0, 0>> \o <<0, 0, 0, 0>> \o <<Len(db)>> \o <<0, 0>>
        \o <<status_len % 256, status_len \div 256>>
        \o status \o db \o <<0>> \o query

\* whole bodies, bodies whose status length points behind the end, and
\* bodies that end early
QueryBodies ==
    {QueryBody(Len(status) + more, status, db, query) :
        status \in {<<>>, <<0, 0, 0, 0, 0>>}, more \in {0, 1, 2, 300},
        db \in {<<>>, S_app}, query \in {<<>>, <<66, 69, 71, 73, 78>>}}
    \cup {SubSeq(QueryBody(0, <<>>, S_app, <<66, 69, 71, 73, 78>>), 1, n) : n \in 12..16}

QueryCalls ==
    {Call("parse_query_event", data, parse_query_event(data, seek_end)) :
        data \in QueryBodies, seek_end \in BOOLEAN}

ParseQuery ==
    \E c \in QueryCalls :
        /\ call' = c
        /\ UNCHANGED <<gtid_set, overflow_checks, clientVars, rotated, engineVars>>

ParseWriteRows ==
    \E c \in WriteRowsCalls :
        /\ call' = c
        /\ UNCHANGED <<gtid_set, overflow_checks, clientVars, rotated, engineVars>>

ParseDeleteRows ==
    \E c \in DeleteRowsCalls :
        /\ call' = c
        /\ UNCHANGED <<gtid_set, overflow_checks, clientVars, rotated, engineVars>>

ParseHeader ==
    \E data \in HeaderInputs :
        /\ call' = Call("parse_header", data, parse_header(data))
        /\ UNCHANGED <<gtid_set, overflow_checks, clientVars, rotated, engineVars>>

ReadLcb ==
    \E data \in LcbInputs, seek_end \in BOOLEAN :
        /\ call' = Call("read_lcb", data, read_lcb(data, 0, seek_end))
        /\ UNCHANGED <<gtid_set, overflow_checks, clientVars, rotated, engineVars>>

ReadPacket ==
    \E pkts \in PacketLists, cut \in 0..1 :
        /\ call' = Call("read_packet", [pkts |-> pkts, cut |-> cut],
                        read_packet(CutOff(WireOf(pkts, 0), cut)))
        /\ UNCHANGED <<gtid_set, overflow_checks, clientVars, rotated, engineVars>>

InitParse ==
    /\ client \in {c \in ClientChoices : c.config.server_id = 1}
    /\ NoSessions
    /\ EngineIdle
    /\ LibIdle

NextParse ==
    \/ ParseHeader
    \/ ReadLcb
    \/ ReadPacket
    \/ ParseWriteRows
    \/ ParseDeleteRows
    \/ ParseUpdateRows
    \/ ParseTableMap
    \/ ParseQuery

SpecParse == InitParse /\ [][NextParse]_vars

-----------------------------------------------------------------------------
(* The handshake response: create_auth_response, create_handshake_response *)

Scrambles ==
    {<<>>, <<1, 2, 3, 4, 5, 6, 7, 8>>,
     <<1, 2, 3, 4, 5, 6, 7, 8, 9, 10, 11, 12, 13, 14, 15, 16, 17, 18, 19, 20>>}
Passwords == {<<>>, S_secret, S_rootpassword, <<0>>}
Usernames == {<<>>, S_root, S_repl}
Databases == {None, Some(<<>>), Some(S_app), Some(S_testdb)}

\* the calls, each with its result
AuthResponseCalls ==
    {Call("create_auth_response", [password |-> pw, scramble |-> scramble],
          create_auth_response(pw, scramble)) :
        pw \in Passwords, scramble \in Scrambles}

HandshakeArgs ==
    [username : Usernames, password : Passwords, database : Databases,
     scramble : Scrambles, collation : {33, 255}]
HandshakeResponseCalls ==
    {Call("create_handshake_response", a,
          create_handshake_response(a.username, a.password, a.database,
                                    a.scramble, a.collation)) :
        a \in HandshakeArgs}

CreateAuthResponse ==
    \E c \in AuthResponseCalls :
        /\ call' = c
        /\ UNCHANGED <<gtid_set, overflow_checks, clientVars, rotated, engineVars>>

CreateHandshakeResponse ==
    \E c \in HandshakeResponseCalls :
        /\ call' = c
        /\ UNCHANGED <<gtid_set, overflow_checks, clientVars, rotated, engineVars>>

NextAuth ==
    \/ CreateAuthResponse
    \/ CreateHandshakeResponse

SpecAuth == InitParse /\ [][NextAuth]_vars

-----------------------------------------------------------------------------
(* The change records of one CdcEngine *)

C_id == <<105, 100>>                                \* "id"
C_name == <<110, 97, 109, 101>>                 \* "name"
C_email == <<101, 109, 97, 105, 108>>           \* "email"

\* the TableMetadata of shop.users with the columns the server listed
TableMetadatas ==
    { [database |-> D_shop, table |-> T_users, columns |-> cols] :
        cols \in {<<>>, <<C_id>>, <<C_id, C_name>>, <<C_id, C_name, C_email>>} }

\* bodies of WRITE_ROWS and DELETE_ROWS events: column count, present bitmap,
\* one row image
RowsBodies ==
    { RowsHead \o <<2, 3, 1, 5, 1, 6>>,       \* two UInt8 columns
      RowsHead \o <<2, 3, 1, 5, 1>>,          \* the second value is cut off
      RowsHead \o <<2, 1, 2, 1, 0>>,          \* a UInt16, the second column absent
      RowsHead \o <<1, 1, 4, 1, 0, 0, 0>>,    \* a UInt32
      RowsHead \o <<1, 1, 7>>,                \* an unknown type byte
      RowsHead \o <<1, 1, 0>>,                \* a NULL
      RowsHead \o <<2, 3, 2, 7>>,             \* a UInt16 cut off after one byte
      RowsHead \o <<0>>,                      \* no columns
      <<1, 0, 0, 0, 0>> }                     \* shorter than a table id

\* the query texts of QUERY events
Queries ==
    {
      <<67, 82, 69, 65, 84, 69, 32, 84, 65, 66, 76, 69, 32, 116>>,   \* "CREATE TABLE t"
      <<99, 114, 101, 97, 116, 101, 32, 116, 97, 98, 108, 101, 32, 116>>,   \* "create table t"
      <<65, 108, 116, 101, 114, 32, 116, 97, 98, 108, 101, 32, 116>>,   \* "Alter table t"
      <<68, 82, 79, 80, 32, 84, 65, 66, 76, 69, 32, 116>>,   \* "DROP TABLE t"
      <<84, 82, 85, 78, 67, 65, 84, 69, 32, 84, 65, 66, 76, 69, 32, 116>>,   \* "TRUNCATE TABLE t"
      <<114, 101, 110, 97, 109, 101, 32, 116, 97, 98, 108, 101, 32, 97, 32, 116, 111, 32, 98>>,   \* "rename table a to b"
      <<73, 78, 83, 69, 82, 84, 32, 73, 78, 84, 79, 32, 116>>,   \* "INSERT INTO t"
      <<66, 69, 71, 73, 78>>,   \* "BEGIN"
      <<>>    \* ""
    }

QueryEventData(db, query) ==
    [thread_id |-> 1, exec_time |-> 0, database |-> db, query |-> query]

WriteRowsToChangeEvent ==
    \E body \in RowsBodies, table \in TableMetadatas, seek_end \in BOOLEAN :
        LET data == parse_write_rows_event(body, seek_end)
        IN  /\ data.kind = "Ok"
            /\ call' = Call("write_rows_to_change_event",
                            [data |-> data, table |-> table],
                            write_rows_to_change_event(data, table))
            /\ UNCHANGED <<gtid_set, overflow_checks, clientVars, engineVars>>

UpdateRowsToChangeEvent ==
    \E body \in UpdateBodies, table \in TableMetadatas, seek_end \in BOOLEAN :
        LET data == parse_update_rows_event(body, seek_end)
        IN  /\ data.kind = "Ok"
            /\ call' = Call("update_rows_to_change_event",
                            [data |-> data, table |-> table],
                            update_rows_to_change_event(data, table))
            /\ UNCHANGED <<gtid_set, overflow_checks, clientVars, engineVars>>

DeleteRowsToChangeEvent ==
    \E body \in RowsBodies, table \in TableMetadatas, seek_end \in BOOLEAN :
        LET data == parse_delete_rows_event(body, seek_end)
        IN  /\ data.kind = "Ok"
            /\ call' = Call("delete_rows_to_change_event",
                            [data |-> data, table |-> table],
                            delete_rows_to_change_event(data, table))
            /\ UNCHANGED <<gtid_set, overflow_checks, clientVars, engineVars>>

QueryToChangeEvent ==
    \E query \in Queries :
        LET data == QueryEventData(D_shop, query)
        IN  /\ call' = Call("query_to_change_event", data,
                            query_to_change_event(config, data))
            /\ UNCHANGED <<gtid_set, overflow_checks, clientVars, engineVars>>

InitRecords ==
    /\ client \in {c \in ClientChoices : c.config.server_id = 1}
    /\ NoSessions
    /\ \E cfg \in EngineConfigs : NewEngine(cfg)
    /\ LibIdle

NextRecords ==
    \/ WriteRowsToChangeEvent
    \/ UpdateRowsToChangeEvent
    \/ DeleteRowsToChangeEvent
    \/ QueryToChangeEvent

SpecRecords == InitRecords /\ [][NextRecords]_vars

-----------------------------------------------------------------------------
(* Claims about the replication sessions (Spec) *)

Last(q) == q[Len(q)]

Writes(s) == SelectSeq(wire[s], LAMBDA e : e.op = "W")

\* the channel of session s can deliver nothing more
Closed(s) == pc[s] # "idle" /\ ~chan[s].txAlive

StartsWith255(p) == p # <<>> /\ p[1] = 255

\* C1: every rows event a session received is followed by a change record on
\* the receiver, in the order received (the rows events of the model carry one
\* row each). Stated at the point where nothing more can be delivered: once the
\* channel is closed, the records sent are the rows events received.
C1_RowEventsDelivered ==
    \A s \in Sessions :
        Closed(s) =>
            /\ Len(chan[s].sent) = Len(rowEvents[s])
            /\ \A i \in DOMAIN rowEvents[s] : chan[s].sent[i].type = rowEvents[s][i]

IsHandshakeResponse(e) ==
    /\ e.seq = 1
    /\ Len(e.body) > 32
    /\ SubSeq(e.body, 10, 32) = Zeros(23)
    /\ SubSeq(e.body, Len(e.body) - 21, Len(e.body)) = S_mysql_native_password \o <<0>>
IsChecksumQuery(e) == e.body = <<3>> \o S_checksum_query
IsBinlogDump(e) == e.body # <<>> /\ e.body[1] = 18

\* C2: a session writes the handshake response, then the COM_QUERY setting
\* @master_binlog_checksum to NONE, then BINLOG_DUMP, each right after a read
\* of the server's packet; BINLOG_DUMP is written only if the authentication
\* reply was read and did not start with 0xFF.
C2_WriteOrder ==
    \A s \in Sessions :
        /\ Len(Writes(s)) <= 3
        /\ Len(Writes(s)) >= 1 => IsHandshakeResponse(Writes(s)[1])
        /\ Len(Writes(s)) >= 2 => IsChecksumQuery(Writes(s)[2])
        /\ Len(Writes(s)) >= 3 => IsBinlogDump(Writes(s)[3])
        /\ \A i \in DOMAIN wire[s] :
              wire[s][i].op = "W" => i > 1 /\ wire[s][i - 1].op = "R"
        /\ pc[s] = "stream" => Len(Writes(s)) = 3
        /\ Len(Writes(s)) = 3 =>
              authReply[s] # NoPacket /\ ~StartsWith255(authReply[s])

C2_Witness ==
    \E s \in Sessions :
        /\ pc[s] = "stream"
        /\ Len(Writes(s)) = 3
        /\ IsBinlogDump(Writes(s)[3])

\* C3: when the reply to the handshake response starts with 0xFF the session
\* ends with an AuthFailed error carrying the code, SQL state and message of
\* that packet.
C3_AuthFailedCarriesPacket ==
    \A s \in Sessions :
        (pc[s] = "done" /\ StartsWith255(authReply[s])) =>
            /\ outcome[s].kind = "AuthFailed"
            /\ {"code", "state", "message"} \subseteq DOMAIN outcome[s]
            /\ outcome[s].code = FromLE(SubSeq(authReply[s], 2, 3))
            /\ outcome[s].state = SubSeq(authReply[s], 5, 9)
            /\ outcome[s].message = SubSeq(authReply[s], 10, Len(authReply[s]))

\* C4: a packet starting with 0xFF during streaming ends the session in a
\* failure, a ServerError with the packet's code, never in success.
C4_ErrorPacketFails ==
    \A s \in Sessions :
        (pc[s] = "done" /\ StartsWith255(endPacket[s])) =>
            /\ outcome[s].kind = "ServerError"
            /\ "code" \in DOMAIN outcome[s]
            /\ outcome[s].code = FromLE(SubSeq(endPacket[s], 2, 3))

\* the session ended on a fatal error
Fatal(s) ==
    /\ pc[s] = "done"
    /\ \/ outcome[s].kind \in {"ConnectionError", "IoError", "ProtocolError"}
       \/ endPacket[s] = IoErr
       \/ StartsWith255(endPacket[s])

\* C5: when a session ends on a fatal error, the last item sent on the event
\* channel before it closes is an error record.
C5_ErrorRecordLast ==
    \A s \in Sessions :
        Fatal(s) =>
            /\ chan[s].sent # <<>>
            /\ Last(chan[s].sent).type = "error"

\* C6: whenever the task of a session has ended, for whatever reason, its
\* channel is closed: no sender is left, and a consumer in recv() is not left
\* suspended.
C6_TaskEndClosesChannel ==
    \A s \in Sessions :
        pc[s] = "done" =>
            /\ ~chan[s].txAlive
            /\ recv(chan[s]) # "Pending"

C6_Witness ==
    \E s, t \in Sessions :
        /\ pc[s] = "done" /\ endPacket[s] = EofPacket /\ recv(chan[s]) = "None"
        /\ pc[t] = "done" /\ outcome[t].kind = "ConnectionError"

\* C7: the event channel has a fixed finite capacity and never holds more
\* undelivered records than that.
C7_ChannelBounded ==
    \A s \in Sessions :
        pc[s] # "idle" =>
            /\ chan[s].capacity \in Nat \ {0}
            /\ Len(chan[s].queue) <= chan[s].capacity

\* the server_id of the BINLOG_DUMP a session wrote
Registered(s) == Len(Writes(s)) = 3
DumpServerId(s) == FromLE(SubSeq(Writes(s)[3].body, 8, 11))

\* C8: no two sessions live at the same time have registered with the same
\* server_id.
C8_DistinctServerIds ==
    \A s, t \in Sessions :
        (s # t /\ pc[s] = "stream" /\ pc[t] = "stream" /\ Registered(s) /\ Registered(t))
            => DumpServerId(s) # DumpServerId(t)

\* C12: once a session has received a ROTATE event naming file F and position
\* P, the position the client holds, which is all a reader of the offset can
\* be given for the session, is file F at position P.
C12_RotateUpdatesOffset ==
    \A s \in Sessions :
        (rotated[s].some /\ rotated[s].val.ok) =>
            /\ client.binlog_filename = rotated[s].val.next_binlog_name
            /\ client.binlog_position = rotated[s].val.position

\* C13: a session connects to the hostname and port of the client's
\* ConnectionConfig and its handshake response is built from that config's
\* username, password and default database.
C13_SessionUsesConfig ==
    \A s \in Sessions :
        /\ pc[s] \notin {"idle", "connect"} =>
              target[s] = [hostname |-> client.config.hostname,
                           port |-> client.config.port]
        /\ Len(Writes(s)) >= 1 =>
              Writes(s)[1].body =
                  create_handshake_response(client.config.username,
                      client.config.password, client.config.database,
                      greeting[s].scramble, greeting[s].server_collation)

\* The fields a server decodes from a COM_BINLOG_DUMP body: the position is
\* the 4-byte field widened to u64.
DecodeBinlogDump(b) ==
    [binlog_position |-> SubSeq(b, 2, 5) \o Zeros(4),
     flags |-> FromLE(SubSeq(b, 6, 7)),
     server_id |-> FromLE(SubSeq(b, 8, 11)),
     binlog_filename |-> SubSeq(b, 12, Len(b))]

DumpWrites(s) ==
    SelectSeq(Writes(s), LAMBDA e : e.body # <<>> /\ e.body[1] = COM_BINLOG_DUMP)

\* C26: the bytes of create_binlog_dump_command are 0x12, the position as a
\* 4-byte little-endian integer, flags 0 as 2 bytes, the server id as 4
\* little-endian bytes and the raw file name, and decoding them with that
\* layout recovers exactly the server id, file name and position passed in.
C26_DumpRoundTrip ==
    \A s \in Sessions :
        \A i \in DOMAIN DumpWrites(s) :
            LET b == DumpWrites(s)[i].body
                d == DecodeBinlogDump(b)
            IN  /\ Len(b) = 11 + Len(client.binlog_filename)
                /\ b[1] = 18
                /\ d.flags = 0
                /\ d.server_id = client.config.server_id
                /\ d.binlog_filename = client.binlog_filename
                /\ d.binlog_position = client.binlog_position

\* C30: when the connection reaches end of input before read_packet has read
\* the 4-byte header and the whole body it announces, read_packet returns an
\* error, never a shortened body, and the session that called it ends there:
\* it reads and writes no further packet.
C30_EofEndsSession ==
    [][\A s \in Sessions :
          /\ lastRead'[s].eof =>
                /\ lastRead'[s].kind = "Err"
                /\ pc'[s] = "done"
                /\ outcome'[s].kind = "IoError" \/ endPacket'[s] = IoErr
          /\ lastRead[s].eof =>
                /\ wire'[s] = wire[s]
                /\ lastRead'[s] = lastRead[s]
                /\ event_count'[s] = event_count[s]
                /\ pc'[s] = "done"]_vars

\* a streaming loop ended by end of input after the whole handshake, and a
\* handshake ended by it
C30_Witness ==
    \E s, t \in Sessions :
        /\ lastRead[s].eof /\ endPacket[s] = IoErr /\ pc[s] = "done"
        /\ Len(Writes(s)) = 3
        /\ lastRead[t].eof /\ outcome[t].kind = "IoError" /\ Len(Writes(t)) = 1

\* C33: during streaming a packet ends the stream as EOF exactly when its
\* first byte is 0xFE and it is shorter than 9 bytes; a packet starting with
\* 0xFE of 9 bytes or more is taken as an event and the loop reads on.
C33_EofPacketEndsStream ==
    \A s \in Sessions :
        /\ \A i \in DOMAIN feEvents[s] : feEvents[s][i] >= 9
        /\ (endPacket[s] \notin {NoPacket, IoErr} /\ ~is_error_packet(endPacket[s])) =>
              /\ endPacket[s] # <<>>
              /\ endPacket[s][1] = 254
              /\ Len(endPacket[s]) < 9
              /\ outcome[s] = Ok
        /\ (feEvents[s] # <<>> /\ endPacket[s] = NoPacket) => pc[s] = "stream"

\* a 9-byte packet starting with 0xFE was taken as an event and the loop is
\* reading on, while another session ended on a 5-byte one
C33_Witness ==
    \E s, t \in Sessions :
        /\ feEvents[s] = <<9>> /\ pc[s] = "stream" /\ event_count[s] = 1
        /\ endPacket[t] = EofPacket /\ pc[t] = "done"

\* C40: handling an error packet (first byte 0xFF) of any length from 1 byte
\* on during streaming reads no byte beyond the end of the packet: the code
\* and the message are taken from bytes that exist and the stream ends.
C40_ErrorPacketInBounds ==
    \A s \in Sessions :
        is_error_packet(endPacket[s]) => outcome[s] = Ok

-----------------------------------------------------------------------------
(* Claims about the engine (SpecEngine) *)

\* C9: stop returns Ok from any state and leaves the engine Stopped without a
\* connection; a stop that follows a stop changes neither state, connection
\* nor offset.
C9_StopIdempotent ==
    [][Stop =>
        /\ Last(calls').op = "stop" /\ Last(calls').result = "Ok"
        /\ state' = "Stopped"
        /\ conn' = None
        /\ (calls # <<>> /\ Last(calls).op = "stop") =>
               (state' = state /\ conn' = conn /\ offset' = offset)]_vars

C9_Witness ==
    /\ Len(calls) = 2
    /\ calls[1] = [op |-> "stop", result |-> "Ok"]
    /\ calls[2] = [op |-> "stop", result |-> "Ok"]
    /\ state = "Stopped"
    /\ conn = None
    /\ offset # NewOffset("mysql-bin.000001")

\* C10: a new engine is Snapshotting without a connection, and after any calls
\* of start and stop the engine holds a connection exactly when it is Streaming.
C10_ConnIffStreaming ==
    /\ calls = <<>> => (state = "Snapshotting" /\ conn = None)
    /\ conn.some <=> state = "Streaming"

C10_Witness ==
    /\ Len(calls) = 2
    /\ calls[1] = [op |-> "start", result |-> "Ok"]
    /\ calls[2] = [op |-> "start", result |-> "Err"]
    /\ state = "Streaming"
    /\ conn.some

\* C38: when start fails at one of its steps (connecting, asking for the
\* server id, the GTID mode, the binlog status), the state, the offset and
\* the connection of the engine are what they were before the call.
C38_FailedStartChangesNothing ==
    [][(/\ calls' # calls
        /\ calls'[Len(calls')] = [op |-> "start", result |-> "Err"]) =>
            /\ state' = state
            /\ offset' = offset
            /\ conn' = conn]_vars

\* a start has failed on an engine that an earlier start had set streaming,
\* with the offset and the connection of that earlier start
C38_Witness ==
    /\ calls = <<[op |-> "start", result |-> "Ok"], [op |-> "start", result |-> "Err"]>>
    /\ state = "Streaming"
    /\ conn.some
    /\ offset # NewOffset("mysql-bin.000001")

\* C11: the engine never reaches Streaming on a server whose binlog_format is
\* not ROW: start fails there.
C11_NonRowRejected ==
    state = "Streaming" => conn.val.binlog_format = "ROW"

\* C14: with config.tables set, a table of a configured database whose schema
\* the server returns has its metadata loaded exactly when its qualified name
\* db.table is in the allow-list.
C14_QualifiedAllowList ==
    (state = "Streaming" /\ config.tables.some /\ conn.val.catalog.tables.some) =>
        \A i \in DOMAIN config.databases :
            \A tb \in conn.val.catalog.tables.val \ conn.val.catalog.noSchema :
                LET name == Qualified(config.databases[i], tb)
                IN  (\E e \in table_metadata : e.key = name)
                        <=> name \in config.tables.val

-----------------------------------------------------------------------------
(* Claims about GTID sets (SpecGtid) *)

\* the ranges are in ascending order of start and no two of them overlap
SortedDisjoint(ranges) ==
    \A i \in DOMAIN ranges :
        /\ U64Le(ranges[i].start, ranges[i].end)
        /\ i > 1 => U64Lt(ranges[i - 1].end, ranges[i].start)

\* C18: after any sequence of parse, add_gtid and subtract the ranges of every
\* UUID of the set are sorted ascending by start and pairwise disjoint.
C18_RangesSortedDisjoint ==
    \A e \in gtid_set : SortedDisjoint(e.ranges)

\* C19: once add_gtid(g) has returned Ok the set contains g, and adding g
\* again returns Ok and leaves the set as it is.
C19_AddThenContains ==
    (call.op = "add_gtid" /\ call.result = "Ok") =>
        /\ GtidSet_contains(gtid_set, call.arg)
        /\ GtidSet_add_gtid(gtid_set, call.arg, overflow_checks)
               = [kind |-> "Ok", set |-> gtid_set]

\* C20: after A.subtract(B) the result contains a GTID exactly when A
\* contains it and B does not; a range of A strictly covering a range of B is
\* split into the part before and the part after it.
C20_SubtractIsDifference ==
    [][call'.op = "subtract" =>
        /\ \A g \in Gtids :
              GtidSet_contains(gtid_set', g)
                  <=> (GtidSet_contains(gtid_set, g) /\ ~GtidSet_contains(call'.arg, g))
        /\ \A e \in gtid_set, o \in call'.arg :
              (/\ e.uuid = o.uuid
               /\ Len(e.ranges) = 1 /\ Len(o.ranges) = 1
               /\ U64Lt(e.ranges[1].start, o.ranges[1].start)
               /\ U64Lt(o.ranges[1].end, e.ranges[1].end))
              => RangesOf(gtid_set', e.uuid)
                     = <<Range(e.ranges[1].start, WrappingDec(o.ranges[1].start)),
                         Range(WrappingInc(o.ranges[1].end), e.ranges[1].end)>>
    ]_vars

\* a subtract has split the range 1-3 around 2
C20_Witness ==
    /\ call.op = "subtract"
    /\ \E o \in call.arg : o.uuid = U_a /\ o.ranges = <<Range(U64(2, 0), U64(2, 0))>>
    /\ HasUuid(gtid_set, U_a)
    /\ RangesOf(gtid_set, U_a) = <<Range(U64(1, 0), U64(1, 0)),
                                   Range(U64(3, 0), U64(3, 0))>>

-----------------------------------------------------------------------------
(* Claims about the change records (SpecRecords) *)

RowsOps == {"write_rows_to_change_event", "update_rows_to_change_event",
            "delete_rows_to_change_event"}

\* the change records the last call returned
Built ==
    IF call.op \in RowsOps THEN {call.result[i] : i \in DOMAIN call.result}
    ELSE IF call.op = "query_to_change_event" /\ call.result.some THEN {call.result.val}
    ELSE {}

\* C15: every change record built has the shape of its operation: an Insert
\* has after and no before, a Delete has before and no after, an Update has
\* both, a Ddl has the raw query, an empty table name and neither image.
C15_RecordShapes ==
    \A e \in Built :
        /\ e.op = "Insert" => (e.after.some /\ ~e.before.some)
        /\ e.op = "Delete" => (e.before.some /\ ~e.after.some)
        /\ e.op = "Update" => (e.before.some /\ e.after.some)
        /\ e.op = "Ddl" => /\ e.query = Some(call.arg.query)
                           /\ e.table = <<>>
                           /\ ~e.before.some /\ ~e.after.some
        /\ e.op = (CASE call.op = "write_rows_to_change_event" -> "Insert"
                     [] call.op = "update_rows_to_change_event" -> "Update"
                     [] call.op = "delete_rows_to_change_event" -> "Delete"
                     [] OTHER -> "Ddl")

\* a Delete record with the two columns of its row has been built
C15_Witness ==
    /\ call.op = "delete_rows_to_change_event"
    /\ Len(call.result) = 1
    /\ call.result[1].op = "Delete"
    /\ Keys(call.result[1].before.val) = {C_id, C_name}

\* C16: in every change record built from an UPDATE_ROWS row pair the before
\* map and the after map have the same set of column names.
C16_UpdateSameKeys ==
    call.op = "update_rows_to_change_event" =>
        \A e \in Built : Keys(e.before.val) = Keys(e.after.val)

S_TRUNCATE == <<84, 82, 85, 78, 67, 65, 84, 69>>
S_RENAME == <<82, 69, 78, 65, 77, 69>>

DdlWords == {S_CREATE, S_ALTER, S_DROP, S_TRUNCATE, S_RENAME}

\* the first whitespace-separated word of s
RECURSIVE WordFrom(_, _)
WordFrom(s, i) ==
    IF i > Len(s) \/ IsSpace(s[i]) THEN <<>> ELSE <<s[i]>> \o WordFrom(s, i + 1)

FirstWord(s) == WordFrom(TrimStart(s), 1)

\* C17: a QUERY event gives a Ddl change record exactly when DDL reporting is
\* enabled and the first word of the query, case-insensitively, is CREATE,
\* ALTER, DROP, TRUNCATE or RENAME.
C17_DdlDetection ==
    call.op = "query_to_change_event" =>
        ((call.result.some /\ call.result.val.op = "Ddl")
            <=> (config.include_ddl
                    /\ to_uppercase(FirstWord(call.arg.query)) \in DdlWords))

-----------------------------------------------------------------------------
(* Claims about the text form of GTID sets (SpecGtidText, SpecGtidMerge) *)

\* the range lists of the canonical inputs: one range, and lists of two and
\* three ascending disjoint ranges
CanonRanges ==
    {<<r>> : r \in UNION {{SmallRange(n, m) : m \in n..MaxSeq} : n \in 1..MaxSeq}}
    \cup {<<SmallRange(1, 100), SmallRange(200, 200), SmallRange(300, 400)>>,
          <<SmallRange(1, 1), SmallRange(3, 3)>>,
          <<SmallRange(1, 2), SmallRange(4, 5)>>}

\* r1:r2:...:rn, a singleton written N
ColonJoin(ranges) == Join(RangeStrs(ranges), Colon)

\* C21: parsing uuid:r1:r2:...:rn gives one UUID entry whose ranges are
\* exactly r1..rn; for 1-100:200:300-400 the set contains sequence 200 and
\* not 150.
C21_ColonRangesParsed ==
    call.op = "parse" =>
        \A rs \in CanonRanges :
            call.arg = U_a \o Colon \o ColonJoin(rs) =>
                /\ call.result = "Ok"
                /\ gtid_set = {UUIDGtidSet(U_a, rs)}
                /\ Len(rs) = 3 =>
                      /\ GtidSet_contains(gtid_set, U_a \o Colon \o Dec(200))
                      /\ ~GtidSet_contains(gtid_set, U_a \o Colon \o Dec(150))

\* the canonical GTID strings of the inputs
CanonicalTexts ==
    {U_a \o Colon \o ColonJoin(rs) : rs \in CanonRanges}
    \cup {U_a \o Colon \o Dec(1) \o Dash \o Dec(2) \o Comma \o U_b \o Colon \o Dec(1)}

\* C22: parsing a canonical GTID string succeeds, and to_string of the parsed
\* set gives the string back byte for byte.
C22_ParseToStringStable ==
    [][/\ (call'.op = "parse" /\ call'.arg \in CanonicalTexts) => call'.result = "Ok"
       /\ (call.op = "parse" /\ call.arg \in CanonicalTexts /\ call'.op = "to_string")
              => call'.result = call.arg
    ]_vars

AllDigits(t) == t # <<>> /\ \A i \in DOMAIN t : IsDigit(t[i])

\* t is N or N-M
IsRangeToken(t) ==
    LET p == Split(t, 45)
    IN  Len(p) \in {1, 2} /\ \A i \in DOMAIN p : AllDigits(p[i])

\* the uuid:range[:range]* groups of a text, separated by commas
Groups(text) == {Split(g, 58) : g \in {Split(text, 44)[i] : i \in DOMAIN Split(text, 44)}}

\* text has the form uuid:range[:range]*[,uuid:range...]
ListForm(text) ==
    \A f \in Groups(text) :
        Len(f) >= 2 /\ f[1] # <<>> /\ \A i \in 2..Len(f) : IsRangeToken(f[i])

\* the sequence numbers of range token t are held by set under uuid
Represented(set, uuid, t) ==
    LET p == Split(t, 45)
        lo == ParseU64(p[1]).val
        hi == ParseU64(p[Len(p)]).val
    IN  /\ HasUuid(set, uuid)
        /\ \E i \in DOMAIN RangesOf(set, uuid) :
              /\ U64Le(RangesOf(set, uuid)[i].start, lo)
              /\ U64Le(hi, RangesOf(set, uuid)[i].end)

\* C23: parse of a text that is not empty and not NULL returns Ok only for a
\* text of the uuid:range list form, and then every range token of the text
\* is held by the returned set.
C23_NoPartialParse ==
    (call.op = "parse" /\ call.arg \notin {<<>>, S_NULL} /\ call.result = "Ok") =>
        /\ ListForm(call.arg)
        /\ \A f \in Groups(call.arg) :
              \A i \in 2..Len(f) : Represented(gtid_set, f[1], f[i])

\* C24: every range of the set satisfies 1 <= start <= end.
C24_RangesFromOne ==
    \A e \in gtid_set :
        \A i \in DOMAIN e.ranges :
            /\ U64Le(U64(1, 0), e.ranges[i].start)
            /\ U64Le(e.ranges[i].start, e.ranges[i].end)

\* a.end + 1 >= b.start and b.end + 1 >= a.start, the sums taken in the
\* integers
Touch(a, b) ==
    /\ a.end = U64Max \/ U64Le(b.start, WrappingInc(a.end))
    /\ b.end = U64Max \/ U64Le(a.start, WrappingInc(b.end))

\* C25: merge(a, b) is [min(a.start, b.start), max(a.end, b.end)] exactly
\* when a and b overlap or touch, and None otherwise.
C25_MergeIffTouching ==
    call.op = "merge" =>
        LET a == call.arg[1]
            b == call.arg[2]
        IN  IF Touch(a, b)
            THEN call.result = [kind |-> "Some",
                                val |-> Range(U64Min(a.start, b.start),
                                              U64Max2(a.end, b.end))]
            ELSE call.result.kind = "None"

-----------------------------------------------------------------------------
(* Claims about the binlog decoders (SpecParse) *)

U32ToLE(x) == LE(x.lo, 2) \o LE(x.hi, 2)

\* an EventHeader written back as its 19 little-endian bytes
EncodeHeader(h) ==
    U32ToLE(h.timestamp) \o <<EventType_as_u8(h.event_type)>>
    \o U32ToLE(h.server_id) \o U32ToLE(h.event_length) \o U32ToLE(h.next_pos)
    \o LE(h.flags, 2)

\* C27: for every event header of 19 bytes, parse_header recovers the six
\* fields so that writing the decoded header back little-endian gives the
\* same 19 bytes, whatever the type byte is.
C27_HeaderRoundTrip ==
    (call.op = "parse_header" /\ Len(call.arg) >= 19) =>
        /\ call.result.kind = "Ok"
        /\ EncodeHeader(call.result.header) = SubSeq(call.arg, 1, 19)

\* C28: read_lcb returns the first byte when it is at most 0xFA, 0 for 0xFB,
\* the next 2 bytes as a u16 for 0xFC, the next 3 bytes as a u24 for 0xFD,
\* the next 8 bytes as a u64 for 0xFE (0 included), an error for 0xFF, and
\* consumes 1, 1, 3, 4 and 9 bytes in the five successful cases.
C28_ReadLcbCases ==
    (call.op = "read_lcb" /\ call.arg # <<>>) =>
        LET d == call.arg
            r == call.result
            Gives(n, v) == r.ok /\ r.pos = n /\ r.u64 = v \o Zeros(8 - Len(v))
        IN  /\ d[1] <= 250 => Gives(1, <<d[1]>>)
            /\ d[1] = 251 => Gives(1, <<0>>)
            /\ (d[1] = 252 /\ Len(d) >= 3) => Gives(3, SubSeq(d, 2, 3))
            /\ (d[1] = 253 /\ Len(d) >= 4) => Gives(4, SubSeq(d, 2, 4))
            /\ (d[1] = 254 /\ Len(d) >= 9) => Gives(9, SubSeq(d, 2, 9))
            /\ d[1] = 255 => ~r.ok

\* the index of the first packet with a length below MaxBody, 0 if none
RECURSIVE FirstShort(_, _)
FirstShort(pkts, i) ==
    IF i > Len(pkts) THEN 0
    ELSE IF pkts[i].len < MaxBody THEN i
    ELSE FirstShort(pkts, i + 1)

\* the bodies of the first k packets, one after the other
RECURSIVE Bodies(_, _, _)
Bodies(pkts, i, k) ==
    IF i > k THEN <<>>
    ELSE (IF pkts[i].len = 0 THEN <<>>
          ELSE <<Seg(<<pkts[i].fill + i - 1>>, pkts[i].len)>>)
         \o Bodies(pkts, i + 1, k)

\* C29: when read_packet reads a wire packet whose length field is 0xFFFFFF
\* it goes on reading and returns the bodies of all packets up to and
\* including the first one with a smaller length, one after the other; a
\* packet with a smaller length field is returned alone.
C29_LongPacketsJoined ==
    (call.op = "read_packet" /\ call.arg.cut = 0
        /\ FirstShort(call.arg.pkts, 1) # 0) =>
        /\ call.result.kind = "Ok"
        /\ call.result.body =
              Bodies(call.arg.pkts, 1, FirstShort(call.arg.pkts, 1))

\* C34: parse_write_rows_event and parse_delete_rows_event decode every row
\* record up to the end of the event body: a body carrying k row records
\* gives k rows.
C34_AllRowsDecoded ==
    call.op \in {"parse_write_rows_event", "parse_delete_rows_event"} =>
        /\ call.result.kind = "Ok"
        /\ Len(call.result.rows) = Len(call.arg.records)

\* column col_idx of the table is flagged in the bitmap
Flagged(bitmap, col_idx) ==
    /\ col_idx \div 8 < Len(bitmap)
    /\ BitSet(bitmap[(col_idx \div 8) + 1], col_idx % 8)

\* C35: in every row pair of an UPDATE_ROWS event both images have one cell
\* for each column of the table, and a column that the changed bitmap does
\* not flag carries in the after image the value of the before image.
C35_UpdateImagesComplete ==
    (call.op = "parse_update_rows_event" /\ call.result.kind = "Ok") =>
        \A i \in DOMAIN call.result.rows :
            /\ Len(call.result.rows[i][1]) = call.result.column_count
            /\ Len(call.result.rows[i][2]) = call.result.column_count
            /\ \A c \in 1..call.result.column_count :
                  ~Flagged(call.result.columns_changed, c - 1) =>
                      call.result.rows[i][2][c] = call.result.rows[i][1][c]

\* C37: parse_update_rows_event returns on every input: every iteration of
\* its loop reads at least one byte or leaves the loop, also when the bitmaps
\* flag no column.
C37_UpdateTerminates ==
    call.op = "parse_update_rows_event" => call.result.kind # "Hang"

\* C36: from a body laid out as db_len, db, 0x00, tbl_len, tbl, 0x00,
\* cols, column types, parse_table_map_event returns the database and table
\* names as they are encoded (the 0x00 after each name is skipped) and the
\* cols column types.
C36_TableMapNames ==
    call.op = "parse_table_map_event" =>
        /\ call.result.kind = "Ok"
        /\ call.result.database = call.arg.database
        /\ call.result.table = call.arg.table
        /\ call.result.column_types = call.arg.column_types

\* C39: on every input of at least 13 bytes parse_query_event returns the
\* decoded event or an error; when the status length points behind the end
\* of the input it returns an error and reads nothing behind the end.
C39_QueryEventInBounds ==
    (call.op = "parse_query_event" /\ Len(call.arg) >= 13) =>
        /\ call.result.kind \in {"Ok", "Err"}
        /\ 13 + FromLE(SubSeq(call.arg, 12, 13)) > Len(call.arg) =>
              call.result.kind = "Err"

-----------------------------------------------------------------------------
(* Claims about the handshake response (SpecAuth) *)

HasBit(x, flag) == (x \div flag) % 2 = 1

\* the bits set in a capability word below 2^20, as the set of their values
BitsOf(x) == {Pow(2, k) : k \in {j \in 0..19 : HasBit(x, Pow(2, j))}}

\* where the auth_reply_len byte of a handshake response for user sits
AuthLenAt(user) == 4 + 4 + 1 + 23 + Len(user) + 1 + 1

\* C31: create_handshake_response sets exactly the capability bits
\* LONG_PASSWORD, LONG_FLAG, PROTOCOL_41, SECURE_CONNECTION, MULTI_STATEMENTS,
\* MULTI_RESULTS and PLUGIN_AUTH, and CONNECT_WITH_DB exactly when a default
\* schema is given; the schema and its NUL are in the packet exactly when
\* that bit is set.
C31_CapabilityBits ==
    call.op = "create_handshake_response" =>
        LET a == call.arg
            b == call.result
            caps == FromLE(SubSeq(b, 1, 4))
            at == AuthLenAt(a.username)
            after == SubSeq(b, at + 1 + b[at], Len(b))
        IN  /\ BitsOf(caps) =
                  {LONG_PASSWORD, LONG_FLAG, PROTOCOL_41, SECURE_CONNECTION,
                   MULTI_STATEMENTS, MULTI_RESULTS, PLUGIN_AUTH}
                  \cup (IF a.database.some THEN {CONNECT_WITH_DB} ELSE {})
            /\ after = (IF HasBit(caps, CONNECT_WITH_DB)
                        THEN a.database.val \o <<0>> ELSE <<>>)
                       \o S_mysql_native_password \o <<0>>

C31_Witness ==
    /\ call.op = "create_handshake_response"
    /\ call.arg.database = Some(<<>>)
    /\ call.arg.password # <<>>
    /\ HasBit(FromLE(SubSeq(call.result, 1, 4)), CONNECT_WITH_DB)

\* C32: create_auth_response returns an empty reply for the empty password
\* and a reply of exactly 20 bytes for every other password and every
\* scramble, and the auth_reply_len byte of the handshake response is the
\* length of the reply that follows it.
C32_AuthReplyLength ==
    /\ call.op = "create_auth_response" =>
          Len(call.result) = IF call.arg.password = <<>> THEN 0 ELSE 20
    /\ call.op = "create_handshake_response" =>
          LET a == call.arg
              b == call.result
              at == AuthLenAt(a.username)
              reply == create_auth_response(a.password, a.scramble)
          IN  /\ b[at] = Len(reply)
              /\ b[at] = IF a.password = <<>> THEN 0 ELSE 20
              /\ SubSeq(b, at + 1, at + b[at]) = reply

C32_Witness ==
    /\ call.op = "create_handshake_response"
    /\ call.arg.password = <<0>>
    /\ call.arg.scramble = <<>>
    /\ call.result[AuthLenAt(call.arg.username)] = 20

====
